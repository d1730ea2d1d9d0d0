------------------------------ MODULE LPRQueue ------------------------------
(***************************************************************************)
(* LPRQueue<T> and its rings PRQ (include/lpr_queue.hpp), after the LPRQ   *)
(* of Romanov and Koval: LCRQueue without a 16-byte compare-and-swap.  The *)
(* two words of a cell, its mark (safe bit and epoch) and its value, are   *)
(* changed one after the other.  An enqueue reserves the cell with a token *)
(* of its thread, marks it with its epoch and only then exchanges the      *)
(* token for the item; a dequeue that comes too early takes the token      *)
(* away.                                                                   *)
(*                                                                         *)
(* One action per shared memory access, together with the thread-local     *)
(* code that follows it.  A new ring is private until it is linked; one    *)
(* whose link fails is deleted and leaves no trace.                        *)
(***************************************************************************)
EXTENDS Naturals, FiniteSets

CONSTANTS Threads,     \* the threads that share the queue, and their tokens
          Items,       \* the items they pass through it, each of them once
          Null,        \* nullptr, NULL_VALUE and EMPTY
          Sizes,       \* the cells a ring may have (1024 in C++)
          MaxDequeues  \* bound of the model: calls of dequeue in all

ASSUME ValuesAssumption == Null \notin Items \union Threads /\ Items \intersect Threads = {}
ASSUME SizeAssumption == Sizes \subseteq Nat \ {0} /\ MaxDequeues \in Nat /\ IsFiniteSet(Items)

\* Rings are numbered in the order they are linked.  Each ring after the first
\* is linked with the item that did not fit into the one before.
Rings == 1..(Cardinality(Items) + 1)

VARIABLES
  R,             \* the cells of a ring, chosen once
  qhead, qtail,  \* LPRQueue::_head and _tail
  next,          \* next[r]: PRQ::next of ring r, 0 for nullptr
  rhead,         \* rhead[r]: PRQ::_head
  rtail,         \* rtail[r]: PRQ::_tail, the ticket and the closed bit
  mark,          \* mark[r][i]: safe_and_epoch of a cell
  value,         \* value[r][i]: an item, the token of a thread, or Null
  freed,         \* the rings the destructor has deleted
  pc,            \* pc[t]: the shared access thread t makes next
  item,          \* item[t]: the argument of enqueue
  prq,           \* prq[t]: the local prq of the running call
  again,         \* again[t]: dequeue looks at its ring for the second time
  ticket,        \* ticket[t]: the local t of enqueue, h of dequeue
  seen,          \* seen[t]: the locals safe_and_epoch and value
  tries,         \* tries[t]: the local iteration of PRQ::enqueue
  unsent,        \* the items no thread has passed to enqueue yet
  dequeues,      \* the calls of dequeue left
  entered,       \* history: the items whose enqueue has returned
  prior,         \* history: prior[x], those that had when x was enqueued
  out,           \* history: the items that came out, and how often
  known          \* history: known[t], those that had when t called dequeue

Cells == 0..(R - 1)
StarvingThreshold == R

ends == <<qhead, qtail, next>>
tickets == <<rhead, rtail>>
cells == <<mark, value>>
queue == <<ends, tickets, cells>>
ringLocals == <<ticket, seen, tries>>
locals == <<item, prq, again, ringLocals>>
calls == <<unsent, dequeues, entered, prior, out, known>>
vars == <<R, queue, freed, pc, locals, calls>>

Mark(s, e) == [safe |-> s, epoch |-> e]
Seen(m, v) == [mark |-> m, value |-> v]
NoneSeen == Seen(Mark(TRUE, 0), Null)

EnqueuePcs == {"lTail", "lNext", "lHelp", "eTicket", "eMark", "eVal", "eHead", "eToken",
               "eEpoch", "eUndo", "ePut", "eOver", "eClose", "lLink", "lSwing"}
\* The accesses of a dequeue that has not left the cell of its ticket.
CellPcs == {"dMark", "dVal", "dMark2", "dTake", "dToken", "dSkip", "dUnsafe"}
DequeuePcs == CellPcs \union {"lHead", "dTicket", "dTail", "lDNext", "lDSwing"}

MarkType == [safe : BOOLEAN, epoch : Nat]
ValueType == Items \union Threads \union {Null}

TypeOK ==
  /\ R \in Sizes
  /\ qhead \in Rings /\ qtail \in Rings /\ next \in [Rings -> Rings \union {0}]
  /\ rhead \in [Rings -> Nat] /\ rtail \in [Rings -> [t : Nat, closed : BOOLEAN]]
  /\ mark \in [Rings -> [Cells -> MarkType]]
  /\ value \in [Rings -> [Cells -> ValueType]]
  /\ freed \subseteq Rings
  /\ pc \in [Threads -> {"idle"} \union EnqueuePcs \union DequeuePcs]
  /\ item \in [Threads -> Items \union {Null}]
  /\ prq \in [Threads -> Rings \union {0}] /\ again \in [Threads -> BOOLEAN]
  /\ \A t \in Threads : prq[t] = 0 => pc[t] \in {"idle", "lTail", "lHead"}
  /\ ticket \in [Threads -> Nat] /\ tries \in [Threads -> 0..(StarvingThreshold + 1)]
  /\ seen \in [Threads -> [mark : MarkType, value : ValueType]]
  /\ unsent \subseteq Items /\ dequeues \in 0..MaxDequeues
  /\ entered \subseteq Items /\ prior \in [Items -> SUBSET Items]
  /\ out \in [Items -> Nat] /\ known \in [Threads -> SUBSET Items]

\* PRQ(): tickets start at R, so that the epoch 0 of a new cell is past.
Init ==
  /\ R \in Sizes
  /\ qhead = 1 /\ qtail = 1 /\ next = [r \in Rings |-> 0]
  /\ rhead = [r \in Rings |-> R]
  /\ rtail = [r \in Rings |-> [t |-> R, closed |-> FALSE]]
  /\ mark = [r \in Rings |-> [i \in Cells |-> Mark(TRUE, 0)]]
  /\ value = [r \in Rings |-> [i \in Cells |-> Null]]
  /\ freed = {} /\ pc = [t \in Threads |-> "idle"]
  /\ item = [t \in Threads |-> Null] /\ prq = [t \in Threads |-> 0]
  /\ again = [t \in Threads |-> FALSE]
  /\ ticket = [t \in Threads |-> 0] /\ seen = [t \in Threads |-> NoneSeen]
  /\ tries = [t \in Threads |-> 0]
  /\ unsent = Items /\ dequeues \in 0..MaxDequeues
  /\ entered = {} /\ prior = [x \in Items |-> {}]
  /\ out = [x \in Items |-> 0] /\ known = [t \in Threads |-> {}]

Goto(t, from, to) ==
  /\ pc[t] = from
  /\ pc' = [pc EXCEPT ![t] = to]
  /\ UNCHANGED <<R, freed>>

\* An access that only decides where to go on.
Test(t, from, to) == Goto(t, from, to) /\ UNCHANGED <<queue, locals, calls>>

\* The locals of PRQ::enqueue and PRQ::dequeue go out of scope.
LeaveRing(t) ==
  /\ ticket' = [ticket EXCEPT ![t] = 0]
  /\ seen' = [seen EXCEPT ![t] = NoneSeen]
  /\ tries' = [tries EXCEPT ![t] = 0]

\* The loop of LPRQueue starts over.
Again(t, from, to) ==
  /\ Goto(t, from, to)
  /\ prq' = [prq EXCEPT ![t] = 0] /\ again' = [again EXCEPT ![t] = FALSE]
  /\ LeaveRing(t)
  /\ UNCHANGED <<item, calls>>

Return(t, from) ==
  /\ Goto(t, from, "idle")
  /\ prq' = [prq EXCEPT ![t] = 0] /\ again' = [again EXCEPT ![t] = FALSE]
  /\ LeaveRing(t)
  /\ item' = [item EXCEPT ![t] = Null]
  /\ known' = [known EXCEPT ![t] = {}]
  /\ UNCHANGED <<unsent, dequeues, prior>>

EnqueueReturns(t, from) ==
  /\ Return(t, from)
  /\ entered' = entered \union {item[t]} /\ UNCHANGED out

\* The cell of the ticket of thread t, and the epoch (cycle) of that ticket.
MarkAt(t) == mark[prq[t]][ticket[t] % R]
ValueAt(t) == value[prq[t]][ticket[t] % R]
Cycle(t) == ticket[t] \div R

SetMark(t, m) == mark' = [mark EXCEPT ![prq[t]][ticket[t] % R] = m]
SetValue(t, v) == value' = [value EXCEPT ![prq[t]][ticket[t] % R] = v]

Free(v) == v = Null \/ v \in Threads \* v == NULL_VALUE || is_token(v)

----------------------------------------------------------------------------
(* LPRQueue::enqueue *)

CallEnqueue(t, x) ==
  /\ x \in unsent
  /\ Goto(t, "idle", "lTail")
  /\ unsent' = unsent \ {x}
  /\ item' = [item EXCEPT ![t] = x]
  /\ prior' = [prior EXCEPT ![x] = entered]
  /\ UNCHANGED <<queue, prq, again, ringLocals, dequeues, entered, out, known>>

LTail(t) ==
  /\ Goto(t, "lTail", "lNext")
  /\ prq' = [prq EXCEPT ![t] = qtail]
  /\ UNCHANGED <<queue, item, again, ringLocals, calls>>

LNext(t) == Test(t, "lNext", IF next[prq[t]] = 0 THEN "eTicket" ELSE "lHelp")

\* _tail.compare_exchange_strong(prq, prq->next); the next of a ring is set once.
CasTail(t) == qtail' = IF qtail = prq[t] THEN next[prq[t]] ELSE qtail

\* Mutant: nobody helps a _tail that lags behind.
LHelpNot(t) == Again(t, "lHelp", "lTail") /\ UNCHANGED queue

LHelp(t) ==
  /\ Again(t, "lHelp", "lTail")
  /\ CasTail(t)
  /\ UNCHANGED <<qhead, next, tickets, cells>>

\* The ring was closed: link a new one that holds the item.
LLink(t) ==
  /\ \/ /\ Goto(t, "lLink", "lSwing")
        /\ next[prq[t]] = 0
        /\ LET n == prq[t] + 1
           IN  /\ next' = [next EXCEPT ![prq[t]] = n]
               /\ rtail' = [rtail EXCEPT ![n].t = R + 1]
               /\ mark' = [mark EXCEPT ![n][0] = Mark(TRUE, 1)]
               /\ value' = [value EXCEPT ![n][0] = item[t]]
        /\ UNCHANGED <<locals, calls>>
     \/ /\ Again(t, "lLink", "lTail")
        /\ next[prq[t]] # 0
        /\ UNCHANGED <<next, rtail, cells>>
  /\ UNCHANGED <<qhead, qtail, rhead>>

LSwing(t) ==
  /\ EnqueueReturns(t, "lSwing")
  /\ CasTail(t)
  /\ UNCHANGED <<qhead, next, tickets, cells>>

----------------------------------------------------------------------------
(* PRQ::enqueue *)

\* _tail.fetch_add(1), which counts on in a closed ring.
ETicket(t) ==
  /\ \/ /\ Goto(t, "eTicket", "lLink")
        /\ rtail[prq[t]].closed
        /\ LeaveRing(t)
     \/ /\ Goto(t, "eTicket", "eMark")
        /\ ~rtail[prq[t]].closed
        /\ ticket' = [ticket EXCEPT ![t] = rtail[prq[t]].t]
        /\ UNCHANGED <<seen, tries>>
  /\ rtail' = [rtail EXCEPT ![prq[t]].t = @ + 1]
  /\ UNCHANGED <<ends, rhead, cells, item, prq, again, calls>>

EMark(t) ==
  /\ Goto(t, "eMark", "eVal")
  /\ seen' = [seen EXCEPT ![t].mark = MarkAt(t)]
  /\ UNCHANGED <<queue, item, prq, again, ticket, tries, calls>>

EVal(t) ==
  /\ Goto(t, "eVal",
          IF Free(ValueAt(t)) /\ seen[t].mark.epoch < Cycle(t)
          THEN IF seen[t].mark.safe THEN "eToken" ELSE "eHead"
          ELSE "eOver")
  /\ seen' = [seen EXCEPT ![t].value = ValueAt(t)]
  /\ UNCHANGED <<queue, item, prq, again, ticket, tries, calls>>

\* The cell is unsafe: use it only if no dequeue has this ticket yet.
EHead(t) == Test(t, "eHead", IF rhead[prq[t]] <= ticket[t] THEN "eToken" ELSE "eOver")

\* Reserve the cell: the value that was read is replaced by the token.
EToken(t) ==
  /\ \/ /\ Goto(t, "eToken", "eEpoch")
        /\ ValueAt(t) = seen[t].value
        /\ SetValue(t, t)
     \/ /\ Goto(t, "eToken", "eOver")
        /\ ValueAt(t) # seen[t].value
        /\ UNCHANGED value
  /\ UNCHANGED <<ends, tickets, mark, locals, calls>>

EEpoch(t) ==
  /\ \/ /\ Goto(t, "eEpoch", "ePut")
        /\ MarkAt(t) = seen[t].mark
        /\ SetMark(t, Mark(TRUE, Cycle(t)))
     \/ /\ Goto(t, "eEpoch", "eUndo")
        /\ MarkAt(t) # seen[t].mark
        /\ UNCHANGED mark
  /\ UNCHANGED <<ends, tickets, value, locals, calls>>

\* Take the token out again, if it is still there.
EUndo(t) ==
  /\ Goto(t, "eUndo", "eOver")
  /\ IF ValueAt(t) = t THEN SetValue(t, Null) ELSE UNCHANGED value
  /\ UNCHANGED <<ends, tickets, mark, locals, calls>>

EPut(t) ==
  /\ \/ /\ EnqueueReturns(t, "ePut")
        /\ ValueAt(t) = t
        /\ SetValue(t, item[t])
     \/ /\ Goto(t, "ePut", "eOver")
        /\ ValueAt(t) # t
        /\ UNCHANGED <<value, locals, calls>>
  /\ UNCHANGED <<ends, tickets, mark>>

\* t - _head >= R on unsigned words: the difference also counts as too large
\* when dequeues have taken later tickets and _head is greater than t.
TooFar(t) == ticket[t] < rhead[prq[t]] \/ ticket[t] - rhead[prq[t]] >= R

EOver(t) ==
  /\ \/ /\ Goto(t, "eOver", "eClose")
        /\ TooFar(t) \/ tries[t] > StarvingThreshold
        /\ UNCHANGED tries
     \/ /\ Goto(t, "eOver", "eTicket")
        /\ ~TooFar(t) /\ tries[t] <= StarvingThreshold
        /\ tries' = [tries EXCEPT ![t] = @ + 1]
  /\ ticket' = [ticket EXCEPT ![t] = 0] /\ seen' = [seen EXCEPT ![t] = NoneSeen]
  /\ UNCHANGED <<queue, item, prq, again, calls>>

EClose(t) ==
  /\ Goto(t, "eClose", "lLink")
  /\ rtail' = [rtail EXCEPT ![prq[t]].closed = TRUE]
  /\ LeaveRing(t)
  /\ UNCHANGED <<ends, rhead, cells, item, prq, again, calls>>

----------------------------------------------------------------------------
(* LPRQueue::dequeue *)

CallDequeue(t) ==
  /\ dequeues > 0
  /\ Goto(t, "idle", "lHead")
  /\ dequeues' = dequeues - 1
  /\ known' = [known EXCEPT ![t] = {x \in Items : out[x] > 0}]
  /\ UNCHANGED <<queue, locals, unsent, entered, prior, out>>

LHead(t) ==
  /\ Goto(t, "lHead", "dTicket")
  /\ prq' = [prq EXCEPT ![t] = qhead]
  /\ UNCHANGED <<queue, item, again, ringLocals, calls>>

\* Mutant: the null test is missing.
LDNextNoNull(t) ==
  /\ Goto(t, "lDNext", "dTicket")
  /\ again' = [again EXCEPT ![t] = TRUE]
  /\ UNCHANGED <<queue, item, prq, ringLocals, calls>>

\* Mutant: no second look.
LDNextOnce(t) ==
  /\ \/ /\ Return(t, "lDNext")
        /\ next[prq[t]] = 0
        /\ UNCHANGED <<entered, out>>
     \/ /\ Goto(t, "lDNext", "lDSwing")
        /\ next[prq[t]] # 0
        /\ UNCHANGED <<locals, calls>>
  /\ UNCHANGED queue

\* The first look at the ring gave nothing: return false if there is no other
\* ring, else look a second time.
LDNext(t) ==
  /\ \/ /\ Return(t, "lDNext")
        /\ next[prq[t]] = 0
        /\ UNCHANGED <<entered, out>>
     \/ /\ Goto(t, "lDNext", "dTicket")
        /\ next[prq[t]] # 0
        /\ again' = [again EXCEPT ![t] = TRUE]
        /\ UNCHANGED <<item, prq, ringLocals, calls>>
  /\ UNCHANGED queue

LDSwing(t) ==
  /\ Again(t, "lDSwing", "lHead")
  /\ qhead' = IF qhead = prq[t] THEN next[prq[t]] ELSE qhead
  /\ UNCHANGED <<qtail, next, tickets, cells>>

----------------------------------------------------------------------------
(* PRQ::dequeue *)

DTicket(t) ==
  /\ Goto(t, "dTicket", "dMark")
  /\ ticket' = [ticket EXCEPT ![t] = rhead[prq[t]]]
  /\ rhead' = [rhead EXCEPT ![prq[t]] = @ + 1]
  /\ UNCHANGED <<ends, rtail, cells, item, prq, again, seen, tries, calls>>

DMark(t) ==
  /\ Goto(t, "dMark", "dVal")
  /\ seen' = [seen EXCEPT ![t].mark = MarkAt(t)]
  /\ UNCHANGED <<queue, item, prq, again, ticket, tries, calls>>

DVal(t) ==
  /\ Goto(t, "dVal", "dMark2")
  /\ seen' = [seen EXCEPT ![t].value = ValueAt(t)]
  /\ UNCHANGED <<queue, item, prq, again, ticket, tries, calls>>

\* Mutant: a dequeue takes the item of an earlier round as well.
DecideAny(t) ==
  LET e == seen[t].mark.epoch
      v == seen[t].value
  IN  CASE e <= Cycle(t) /\ ~Free(v) -> "dTake"
        [] e <= Cycle(t) /\ v = Null -> "dSkip"
        [] e <= Cycle(t) /\ v \in Threads -> "dToken"
        [] e > Cycle(t)              -> "dTail"

\* What the dequeue does with the cell it has read.
Decide(t) ==
  LET e == seen[t].mark.epoch
      v == seen[t].value
  IN  CASE e = Cycle(t) /\ ~Free(v)  -> "dTake"
        [] e <= Cycle(t) /\ v = Null -> "dSkip"
        [] e <= Cycle(t) /\ v \in Threads -> "dToken"
        [] e < Cycle(t) /\ ~Free(v)  -> "dUnsafe"
        [] e > Cycle(t)              -> "dTail"

\* Read the cell again.
Reread(t, from) ==
  /\ Goto(t, from, "dMark")
  /\ seen' = [seen EXCEPT ![t] = NoneSeen]
  /\ UNCHANGED <<item, prq, again, ticket, tries, calls>>

\* Mutant: the mark is not read a second time.
DMark2Not(t) == Test(t, "dMark2", Decide(t))

\* The mark that was read before the value must still be there after it.
DMark2(t) ==
  \/ /\ Test(t, "dMark2", Decide(t))
     /\ MarkAt(t) = seen[t].mark
  \/ /\ Reread(t, "dMark2")
     /\ MarkAt(t) # seen[t].mark
     /\ UNCHANGED queue

\* The item of this ticket: a plain store empties the cell.
DTake(t) ==
  /\ Return(t, "dTake")
  /\ SetValue(t, Null)
  /\ out' = [out EXCEPT ![seen[t].value] = @ + 1]
  /\ UNCHANGED <<ends, tickets, mark, entered>>

\* An enqueue is on its way into the cell: take its token away.
DToken(t) ==
  /\ \/ /\ Goto(t, "dToken", "dSkip")
        /\ ValueAt(t) = seen[t].value
        /\ SetValue(t, Null)
        /\ UNCHANGED <<locals, calls>>
     \/ /\ Reread(t, "dToken")
        /\ ValueAt(t) # seen[t].value
        /\ UNCHANGED value
  /\ UNCHANGED <<ends, tickets, mark>>

\* Compare-and-swap of the mark, after which the dequeue leaves the cell.
DCasMark(t, from, new) ==
  /\ \/ /\ Goto(t, from, "dTail")
        /\ MarkAt(t) = seen[t].mark
        /\ SetMark(t, new)
        /\ UNCHANGED <<locals, calls>>
     \/ /\ Reread(t, from)
        /\ MarkAt(t) # seen[t].mark
        /\ UNCHANGED mark
  /\ UNCHANGED <<ends, tickets, value>>

\* No item yet: move the epoch on, against the enqueue with this ticket.
DSkip(t) == DCasMark(t, "dSkip", Mark(seen[t].mark.safe, Cycle(t)))

\* An item of an earlier round: mark the cell unsafe for that enqueue.
DUnsafe(t) == DCasMark(t, "dUnsafe", Mark(FALSE, seen[t].mark.epoch))

\* Is the ring empty?  _head stays above _tail if it is.
DTail(t) ==
  /\ Goto(t, "dTail",
          IF rtail[prq[t]].t > ticket[t] + 1 THEN "dTicket"
          ELSE IF again[t] THEN "lDSwing" ELSE "lDNext")
  /\ ticket' = [ticket EXCEPT ![t] = 0] /\ seen' = [seen EXCEPT ![t] = NoneSeen]
  /\ UNCHANGED <<queue, item, prq, again, tries, calls>>

----------------------------------------------------------------------------

Enqueue(t) ==
  \/ LTail(t) \/ LNext(t) \/ LHelp(t) \/ LLink(t) \/ LSwing(t)
  \/ ETicket(t) \/ EMark(t) \/ EVal(t) \/ EHead(t) \/ EToken(t) \/ EEpoch(t)
  \/ EUndo(t) \/ EPut(t) \/ EOver(t) \/ EClose(t)

Dequeue(t) ==
  \/ LHead(t) \/ LDNext(t) \/ LDSwing(t)
  \/ DTicket(t) \/ DMark(t) \/ DVal(t) \/ DMark2(t) \/ DTake(t) \/ DToken(t)
  \/ DSkip(t) \/ DUnsafe(t) \/ DTail(t)

Call(t) == freed = {} /\ (CallDequeue(t) \/ \E x \in Items : CallEnqueue(t, x))

\* ~LPRQueue(), with no call in progress: deletes the rings from _head on.  Those
\* that _head has left are deleted by nobody.
Destroy ==
  /\ \A t \in Threads : pc[t] = "idle"
  /\ freed = {}
  /\ freed' = {r \in Rings : r >= qhead /\ (r = qhead \/ next[r - 1] = r)}
  /\ UNCHANGED <<R, queue, pc, locals, calls>>

Finished == freed # {} /\ UNCHANGED vars

Next == Destroy \/ Finished \/ \E t \in Threads : Call(t) \/ Enqueue(t) \/ Dequeue(t)

Spec == Init /\ [][Next]_vars

\* The scheduler keeps running thread t inside its call; every other thread
\* may stop for ever at any point of a call.
OnlyFair(t) == WF_vars(Enqueue(t) \/ Dequeue(t))

----------------------------------------------------------------------------
(* Properties *)

\* An item in a cell is still to be taken: the cell carries the epoch of the
\* item's ticket, and either the dequeue that has that ticket is still at the
\* cell, or no dequeue has it and the ring is one that dequeues reach.  This is
\* what the token, the order mark-before-item, the repeated read of the mark
\* and the second look before _head moves on are for; LCRQueue has no second
\* look and fails here.
NoneStranded ==
  \A r \in Rings, i \in Cells : value[r][i] \in Items =>
    LET h == mark[r][i].epoch * R + i
    IN  \/ r >= qhead /\ rhead[r] <= h
        \/ \E t \in Threads : prq[t] = r /\ ticket[t] = h /\ pc[t] \in CellPcs

\* An item is in one cell or has come out once, never both and never twice,
\* even if its enqueue tried several cells and rings; and it is never nowhere
\* once its enqueue has returned.  With NoneStranded this is what
\* "assert(allConsumedItems == items)" (correctness.cc:148) asks for.
ExactlyOnce ==
  \A x \in Items :
    LET n == out[x] + Cardinality({p \in Rings \X Cells : value[p[1]][p[2]] = x})
    IN  n <= 1 /\ (x \in entered => n = 1)

\* First in, first out, for the items that come out: a dequeue does not return
\* x if, when it was called, some y had come out although the enqueue of x had
\* returned before that of y began.
OrderKept ==
  [][\A t \in Threads : (pc[t] = "dTake" /\ pc'[t] = "idle") =>
       \A y \in known[t] : seen[t].value \notin prior[y]]_vars

\* Lock-freedom: a thread that keeps running finishes its call even if all
\* the others stop in the middle of theirs.
LockFree(t) == pc[t] # "idle" ~> pc[t] = "idle"

=============================================================================
