------------------------------ MODULE PLJQueue ------------------------------
(***************************************************************************)
(* PLJQueue<T> (include/plj_queue.hpp), the lock-free queue of Prakash,    *)
(* Lee and Johnson: no dummy node, an empty queue has a null head and a    *)
(* null tail.  Every attempt takes a snapshot of head, tail and the link   *)
(* of the last node, deduces from it one of the eight states of their      *)
(* Figure 2 and does the step that this state calls for, for itself or for *)
(* a call another thread left half done.                                   *)
(*                                                                         *)
(* Every shared word is a pointer with a counter that each update          *)
(* increments; a link also has a mark.  The mark of head and tail is ENQ   *)
(* for ever and is left out.  One action per shared memory access,         *)
(* together with the thread-local code that follows it.  The object that   *)
(* carries item x is called x; no address is reused, because dequeue frees *)
(* nothing and there is no destructor.                                     *)
(***************************************************************************)
EXTENDS Naturals, Sequences

CONSTANTS Threads,  \* the threads that share the queue
          Items,    \* the items they pass through it, each of them once
          Null,     \* nullptr
          CountMod  \* the counters are unsigned: they wrap here (2^32 in C++)

ASSUME NodeAssumption == Null \notin Items
ASSUME CountAssumption == CountMod \in Nat \ {0}

Counters == 0..(CountMod - 1)
Inc(c) == (c + 1) % CountMod

\* Pointer, as head and tail hold it, and as Object::nextobject holds it.
Pointers == [ptr : Items \union {Null}, counter : Counters]
Links == [ptr : Items \union {Null}, counter : Counters, mark : {"ENQ", "DEQ"}]
Pointer(n, c) == [ptr |-> n, counter |-> c]
Link(n, c, m) == [ptr |-> n, counter |-> c, mark |-> m]

VARIABLES
  head, tail,          \* Shared_head and Shared_tail
  next,                \* next[x]: Object::nextobject
  contents,            \* history: the items enqueued and not dequeued
  pc,                  \* pc[t]: the shared access thread t makes next
  op,                  \* op[t]: the call in progress, "enq" or "deq"
  item,                \* item[t]: the object t enqueues or has dequeued
  phead, ptail, pnext, \* Private_head, Private_tail and Next
  unsent               \* the items no thread has passed to enqueue yet

list == <<head, tail, next, contents>>
private == <<phead, ptail, pnext>>
vars == <<list, pc, op, item, private, unsent>>

SnapshotPcs == {"snapHead", "snapTail", "snapNext", "snapTail2", "snapHead2"}
HelpPcs == {"helpTail", "helpHead", "nullTail", "nullHead"}
EnqueuePcs == {"link", "linkTail", "claimTail", "claimHead"}
DequeuePcs == {"reload", "deqLoad", "deqSwing", "mark", "markTail", "markHead",
               "delinkLoad", "delinkStore", "empty"}

TypeOK ==
  /\ head \in Pointers /\ tail \in Pointers
  /\ next \in [Items -> Links]
  /\ contents \in Seq(Items)
  /\ pc \in [Threads -> {"idle"} \union SnapshotPcs \union HelpPcs
                        \union EnqueuePcs \union DequeuePcs]
  /\ op \in [Threads -> {"enq", "deq"}]
  /\ item \in [Threads -> Items \union {Null}]
  /\ \A t \in Threads :
       pc[t] \in {"markTail", "markHead", "delinkLoad", "delinkStore"} => item[t] # Null
  /\ phead \in [Threads -> Pointers] /\ ptail \in [Threads -> Pointers]
  /\ pnext \in [Threads -> Links]
  /\ unsent \subseteq Items

Init ==
  /\ head = Pointer(Null, 0) /\ tail = Pointer(Null, 0)
  /\ next = [x \in Items |-> Link(Null, 0, "ENQ")]
  /\ contents = <<>>
  /\ pc = [t \in Threads |-> "idle"]
  /\ op = [t \in Threads |-> "deq"]
  /\ item = [t \in Threads |-> Null]
  /\ phead = [t \in Threads |-> Pointer(Null, 0)]
  /\ ptail = [t \in Threads |-> Pointer(Null, 0)]
  /\ pnext = [t \in Threads |-> Link(Null, 0, "ENQ")]
  /\ unsent = Items

Goto(t, from, to) ==
  /\ pc[t] = from
  /\ pc' = [pc EXCEPT ![t] = to]

\* What the private variables hold is not read again: Next is either loaded
\* by the next snapshot, or the tail is null and nobody looks at it.
DropPrivate(t) ==
  /\ phead' = [phead EXCEPT ![t] = Pointer(Null, 0)]
  /\ ptail' = [ptail EXCEPT ![t] = Pointer(Null, 0)]
  /\ pnext' = [pnext EXCEPT ![t] = Link(Null, 0, "ENQ")]

Again(t, from) ==
  /\ Goto(t, from, "snapHead")
  /\ DropPrivate(t)
  /\ UNCHANGED <<op, item, unsent>>

Return(t, from) ==
  /\ Goto(t, from, "idle")
  /\ DropPrivate(t)
  /\ op' = [op EXCEPT ![t] = "deq"]
  /\ item' = [item EXCEPT ![t] = Null]
  /\ UNCHANGED unsent

\* Compare-and-swap of Shared_head, Shared_tail: to n, with the next counter.
CasHead(t, n) == head' = IF head = phead[t] THEN Pointer(n, Inc(phead[t].counter)) ELSE head
CasTail(t, n) == tail' = IF tail = ptail[t] THEN Pointer(n, Inc(ptail[t].counter)) ELSE tail

\* The history without its oldest item, if it has one.
WithoutFirst == SubSeq(contents, 2, Len(contents))

----------------------------------------------------------------------------
(* The calls *)

CallEnqueue(t, x) ==
  /\ x \in unsent
  /\ Goto(t, "idle", "snapHead")
  /\ unsent' = unsent \ {x}
  /\ op' = [op EXCEPT ![t] = "enq"]
  /\ item' = [item EXCEPT ![t] = x]
  /\ UNCHANGED <<list, private>>

CallDequeue(t) ==
  /\ Goto(t, "idle", "snapHead")
  /\ UNCHANGED <<list, op, item, private, unsent>>

----------------------------------------------------------------------------
(* Snapshot and DetermineState *)

SnapHead(t) ==
  /\ Goto(t, "snapHead", "snapTail")
  /\ phead' = [phead EXCEPT ![t] = head]
  /\ UNCHANGED <<list, op, item, ptail, pnext, unsent>>

SnapTail(t) ==
  /\ Goto(t, "snapTail", IF tail.ptr = Null THEN "snapTail2" ELSE "snapNext")
  /\ ptail' = [ptail EXCEPT ![t] = tail]
  /\ UNCHANGED <<list, op, item, phead, pnext, unsent>>

SnapNext(t) ==
  /\ Goto(t, "snapNext", "snapTail2")
  /\ pnext' = [pnext EXCEPT ![t] = next[ptail[t].ptr]]
  /\ UNCHANGED <<list, op, item, phead, ptail, unsent>>

SnapTail2(t) ==
  /\ \/ tail = ptail[t] /\ Goto(t, "snapTail2", "snapHead2") /\ UNCHANGED <<ptail, pnext>>
     \/ /\ tail # ptail[t] /\ Goto(t, "snapTail2", "snapTail")
        /\ ptail' = [ptail EXCEPT ![t] = Pointer(Null, 0)]
        /\ pnext' = [pnext EXCEPT ![t] = Link(Null, 0, "ENQ")]
  /\ UNCHANGED <<list, op, item, phead, unsent>>

\* Mutant: a marked last object is not told from an unmarked one.
DetermineStateNoMark(t) ==
  CASE phead[t].ptr # Null /\ phead[t].ptr = ptail[t].ptr ->
         IF pnext[t].ptr # Null THEN 5 ELSE 3
    [] phead[t].ptr # Null /\ ptail[t].ptr # Null /\ phead[t].ptr # ptail[t].ptr ->
         IF pnext[t].ptr = Null THEN 1 ELSE 2
    [] phead[t].ptr = Null /\ ptail[t].ptr = Null -> 7
    [] phead[t].ptr # Null /\ ptail[t].ptr = Null -> 6
    [] phead[t].ptr = Null /\ ptail[t].ptr # Null -> 8

DetermineState(t) ==
  CASE phead[t].ptr # Null /\ phead[t].ptr = ptail[t].ptr ->
         IF pnext[t].ptr # Null THEN 5 ELSE IF pnext[t].mark = "DEQ" THEN 4 ELSE 3
    [] phead[t].ptr # Null /\ ptail[t].ptr # Null /\ phead[t].ptr # ptail[t].ptr ->
         IF pnext[t].ptr = Null THEN 1 ELSE 2
    [] phead[t].ptr = Null /\ ptail[t].ptr = Null -> 7
    [] phead[t].ptr # Null /\ ptail[t].ptr = Null -> 6
    [] phead[t].ptr = Null /\ ptail[t].ptr # Null -> 8

\* The two switches: the access a call makes first in each state.
EnqueueSwitch == <<"link", "helpTail", "link", "nullTail",
                   "helpTail", "nullHead", "claimTail", "helpHead">>
DequeueSwitch == <<"deqLoad", "deqLoad", "mark", "nullTail",
                   "reload", "nullHead", "empty", "helpHead">>

SnapHead2(t) ==
  /\ \/ /\ head = phead[t]
        /\ Goto(t, "snapHead2",
                IF op[t] = "enq" THEN EnqueueSwitch[DetermineState(t)]
                ELSE DequeueSwitch[DetermineState(t)])
        /\ UNCHANGED <<op, item, private, unsent>>
     \/ head # phead[t] /\ Again(t, "snapHead2")
  /\ UNCHANGED list

----------------------------------------------------------------------------
(* Steps that finish what another call left half done *)

\* States 2 and 5: the tail moves on to the node linked behind it.
HelpTail(t) ==
  /\ Again(t, "helpTail")
  /\ CasTail(t, pnext[t].ptr)
  /\ UNCHANGED <<head, next, contents>>

\* A dequeue in state 5 loads the link once more.
Reload(t) ==
  /\ Goto(t, "reload", "helpTail")
  /\ pnext' = [pnext EXCEPT ![t] = next[ptail[t].ptr]]
  /\ UNCHANGED <<list, op, item, phead, ptail, unsent>>

\* Mutant: nobody helps an enqueue into an empty queue to set the head.
HelpHeadNot(t) ==
  /\ Again(t, "helpHead")
  /\ UNCHANGED list

\* State 8: the head moves to the only node.
HelpHead(t) ==
  /\ Again(t, "helpHead")
  /\ CasHead(t, ptail[t].ptr)
  /\ UNCHANGED <<tail, next, contents>>

\* States 4 and 6: tail and head become null once the last node is marked; the
\* dequeue that marked it (state 3) goes the same way.
NullTail(t) ==
  /\ Goto(t, "nullTail", "nullHead") \/ Goto(t, "markTail", "markHead")
  /\ CasTail(t, Null)
  /\ UNCHANGED <<head, next, contents, op, item, private, unsent>>

NullHead(t) ==
  /\ \/ Again(t, "nullHead")
     \/ /\ Goto(t, "markHead", "delinkLoad")
        /\ DropPrivate(t)
        /\ UNCHANGED <<op, item, unsent>>
  /\ CasHead(t, Null)
  /\ UNCHANGED <<tail, next, contents>>

----------------------------------------------------------------------------
(* enqueue *)

\* States 1 and 3: link the object behind the last one, then move the tail.
LinkNext(t) ==
  /\ \/ /\ Goto(t, "link", "linkTail")
        /\ next[ptail[t].ptr] = pnext[t]
        /\ next' = [next EXCEPT ![ptail[t].ptr] =
                      Link(item[t], Inc(pnext[t].counter), "ENQ")]
        /\ contents' = Append(contents, item[t])
        /\ UNCHANGED <<op, item, private, unsent>>
     \/ /\ Again(t, "link")
        /\ next[ptail[t].ptr] # pnext[t]
        /\ UNCHANGED <<next, contents>>
  /\ UNCHANGED <<head, tail>>

LinkTail(t) ==
  /\ Return(t, "linkTail")
  /\ CasTail(t, item[t])
  /\ UNCHANGED <<head, next, contents>>

\* State 7: the first object of an empty queue becomes the tail, then the head.
ClaimTail(t) ==
  /\ \/ /\ Goto(t, "claimTail", "claimHead")
        /\ tail = ptail[t]
        /\ contents' = Append(contents, item[t])
        /\ UNCHANGED <<op, item, private, unsent>>
     \/ /\ Again(t, "claimTail")
        /\ tail # ptail[t]
        /\ UNCHANGED contents
  /\ CasTail(t, item[t])
  /\ UNCHANGED <<head, next>>

ClaimHead(t) ==
  /\ Return(t, "claimHead")
  /\ CasHead(t, item[t])
  /\ UNCHANGED <<tail, next, contents>>

----------------------------------------------------------------------------
(* dequeue *)

\* States 1 and 2: read the second object and make it the head.
DeqLoad(t) ==
  /\ Goto(t, "deqLoad", "deqSwing")
  /\ pnext' = [pnext EXCEPT ![t] = next[phead[t].ptr]]
  /\ UNCHANGED <<list, op, item, phead, ptail, unsent>>

DeqSwing(t) ==
  /\ \/ /\ Goto(t, "deqSwing", "delinkLoad")
        /\ head = phead[t]
        /\ item' = [item EXCEPT ![t] = phead[t].ptr]
        /\ contents' = WithoutFirst
        /\ DropPrivate(t)
        /\ UNCHANGED <<op, unsent>>
     \/ /\ Again(t, "deqSwing")
        /\ head # phead[t]
        /\ UNCHANGED contents
  /\ CasHead(t, pnext[t].ptr)
  /\ UNCHANGED <<tail, next>>

\* Mutant: dequeued_obj is not set.
MarkOnly(t) ==
  /\ \/ /\ Goto(t, "mark", "markTail")
        /\ next[ptail[t].ptr] = pnext[t]
        /\ next' = [next EXCEPT ![ptail[t].ptr] =
                      Link(pnext[t].ptr, Inc(pnext[t].counter), "DEQ")]
        /\ contents' = WithoutFirst
        /\ UNCHANGED <<op, item, private, unsent>>
     \/ /\ Again(t, "mark")
        /\ next[ptail[t].ptr] # pnext[t]
        /\ UNCHANGED <<next, contents>>
  /\ UNCHANGED <<head, tail>>

\* State 3: mark the only object, so that nothing is linked behind it.
Mark(t) ==
  /\ \/ /\ Goto(t, "mark", "markTail")
        /\ next[ptail[t].ptr] = pnext[t]
        /\ next' = [next EXCEPT ![ptail[t].ptr] =
                      Link(pnext[t].ptr, Inc(pnext[t].counter), "DEQ")]
        /\ item' = [item EXCEPT ![t] = phead[t].ptr]
        /\ contents' = WithoutFirst
        /\ UNCHANGED <<op, private, unsent>>
     \/ /\ Again(t, "mark")
        /\ next[ptail[t].ptr] # pnext[t]
        /\ UNCHANGED <<next, contents>>
  /\ UNCHANGED <<head, tail>>

\* Delink the dequeued object: a load and a store, not a compare-and-swap.
DelinkLoad(t) ==
  /\ Goto(t, "delinkLoad", "delinkStore")
  /\ pnext' = [pnext EXCEPT ![t] = next[item[t]]]
  /\ UNCHANGED <<list, op, item, phead, ptail, unsent>>

\* Mutant: the link is reset, counter and all, as in the line commented out.
DelinkStoreReset(t) ==
  /\ Return(t, "delinkStore")
  /\ next' = [next EXCEPT ![item[t]] = Link(Null, 0, "ENQ")]
  /\ UNCHANGED <<head, tail, contents>>

DelinkStore(t) ==
  /\ Return(t, "delinkStore")
  /\ next' = [next EXCEPT ![item[t]] = Link(Null, Inc(pnext[t].counter), "ENQ")]
  /\ UNCHANGED <<head, tail, contents>>

\* State 7: return false.
DeqReturnEmpty(t) ==
  /\ Return(t, "empty")
  /\ UNCHANGED list

----------------------------------------------------------------------------

Snapshot(t) == SnapHead(t) \/ SnapTail(t) \/ SnapNext(t) \/ SnapTail2(t) \/ SnapHead2(t)
Help(t) == HelpTail(t) \/ HelpHead(t) \/ NullTail(t) \/ NullHead(t)
Enqueue(t) == LinkNext(t) \/ LinkTail(t) \/ ClaimTail(t) \/ ClaimHead(t)
Dequeue(t) ==
  \/ Reload(t) \/ DeqLoad(t) \/ DeqSwing(t) \/ Mark(t)
  \/ DelinkLoad(t) \/ DelinkStore(t) \/ DeqReturnEmpty(t)

Call(t) == CallDequeue(t) \/ \E x \in Items : CallEnqueue(t, x)
Step(t) == Snapshot(t) \/ Help(t) \/ Enqueue(t) \/ Dequeue(t)

Next == \E t \in Threads : Call(t) \/ Step(t)

Spec == Init /\ [][Next]_vars

\* The scheduler keeps running thread t inside its call; every other thread
\* may stop for ever at any point of a call.
OnlyFair(t) == WF_vars(Step(t))

----------------------------------------------------------------------------
(* Properties *)

Last == contents[Len(contents)]

\* The states of Figure 2.  With something in the queue the objects are linked
\* in order and unmarked at the end, the tail is the last or the one before
\* it, and the head is the first, or still null after an enqueue into an empty
\* queue.  With nothing in it head and tail are null, or both are the object
\* whose dequeue marked it, or only the head still is.
QueueEmpty ==
  /\ contents = <<>>
  /\ \/ head.ptr = Null /\ tail.ptr = Null
     \/ /\ head.ptr # Null /\ tail.ptr \in {head.ptr, Null}
        /\ tail.ptr = head.ptr => next[head.ptr].mark = "DEQ"

QueueNonEmpty ==
  /\ contents # <<>>
  /\ \A i \in 1..(Len(contents) - 1) : next[contents[i]].ptr = contents[i + 1]
  /\ next[Last].ptr = Null /\ next[Last].mark = "ENQ"
  /\ head.ptr = contents[1] \/ (head.ptr = Null /\ Len(contents) = 1)
  /\ \/ tail.ptr = Last
     \/ Len(contents) > 1 /\ tail.ptr = contents[Len(contents) - 1]

FigureTwo == QueueEmpty \/ QueueNonEmpty

\* The counter of a link is never set back, although dequeue delinks its
\* object with a load and a later store: nobody changes the link in between.
\* A link that repeats lets an enqueue with an old snapshot append its object
\* to one that has left the queue.
LinkCounted ==
  [][\A x \in Items :
       next'[x] # next[x] => next'[x].counter = Inc(next[x].counter)]_vars

StageOf(t) ==
  CASE pc[t] = "idle"                                                 -> "idle"
    [] pc[t] \in {"linkTail", "claimHead"}                            -> "enqDone"
    [] pc[t] \in {"markTail", "markHead", "delinkLoad", "delinkStore"} -> "deqDone"
    [] op[t] = "deq" /\ pc[t] = "empty"                               -> "deqEmpty"
    [] op[t] = "deq" /\ pc[t] = "snapHead2" /\ ptail[t].ptr = Null    -> "deqEmpty"
    [] OTHER                                                          -> op[t]

\* An enqueue takes effect when it links its object or makes it the tail, a
\* dequeue when it moves the head or marks the last object, and one that
\* returns false when it reads a null tail for the second time.
Fifo == INSTANCE FifoQueue WITH
  None  <- Null,
  queue <- contents,
  stage <- [t \in Threads |-> StageOf(t)],
  val   <- item

\* Every call of PLJQueue takes effect at one instant between its call and its
\* return, in FIFO order, and false means empty.
Linearizable == Fifo!Spec

\* Lock-freedom: a thread that keeps running finishes its call even if all
\* the others stop in the middle of theirs.
LockFree(t) == pc[t] # "idle" ~> pc[t] = "idle"

=============================================================================
