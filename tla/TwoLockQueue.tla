---------------------------- MODULE TwoLockQueue ----------------------------
(***************************************************************************)
(* TwoLockQueue<T> (include/two_lock_queue.hpp): a linked list with a      *)
(* dummy first node, a mutex for the head and one for the tail.  An        *)
(* enqueue and a dequeue may run at once; they meet in the next pointer of *)
(* the last node.  dequeue deletes the old dummy after it has released its *)
(* mutex, and the allocator may hand the address out again at once.        *)
(*                                                                         *)
(* One action per lock operation and per access to shared memory.          *)
(***************************************************************************)
EXTENDS Naturals, Sequences

CONSTANTS Threads, \* the threads that share the queue
          Items,   \* the items they pass through it, each of them once
          Nodes,   \* the addresses the allocator hands out
          Null     \* nullptr

ASSUME NodeAssumption == Null \notin Nodes \union Items \union Threads /\ Nodes # {}

NodeOrNull == Nodes \union {Null}

VARIABLES
  head, tail,         \* head_ and tail_
  headLock, tailLock, \* the thread that holds head_lock_, tail_lock_, or Null
  next, data,         \* next[n], data[n]: Node::next and Node::item
  free,               \* the addresses the allocator may hand out
  chain,              \* history: the nodes from head_ on, as they were linked
  pc,                 \* pc[t]: the step thread t makes next
  node,               \* node[t]: the local node of enqueue, dummy of dequeue
  lnext,              \* lnext[t]: the local new_head
  item,               \* item[t]: the item thread t enqueues or has dequeued
  unsent,             \* the items no thread has passed to enqueue yet
  dtor                \* how far the destructor has come

list == <<head, tail, next, data, chain>>
locks == <<headLock, tailLock>>
locals == <<node, lnext, item>>
vars == <<list, locks, free, pc, locals, unsent, dtor>>

EnqueuePcs == {"enqLock", "enqLink", "enqSwing", "enqUnlock"}
DequeuePcs == {"deqLock", "deqRead", "deqCheck", "deqSwing", "deqUnlock", "deqFree"}
Pcs == {"idle"} \union EnqueuePcs \union DequeuePcs

TypeOK ==
  /\ head \in NodeOrNull /\ (dtor = "live" => head # Null) /\ tail \in Nodes
  /\ headLock \in Threads \union {Null} /\ tailLock \in Threads \union {Null}
  /\ next \in [Nodes -> NodeOrNull] /\ data \in [Nodes -> Items \union {Null}]
  /\ free \subseteq Nodes
  /\ chain \in Seq(Nodes)
  /\ pc \in [Threads -> Pcs]
  /\ node \in [Threads -> NodeOrNull] /\ lnext \in [Threads -> NodeOrNull]
  /\ item \in [Threads -> Items \union {Null}]
  /\ unsent \subseteq Items
  /\ dtor \in {"live", "running", "gone"}

Init ==
  /\ head \in Nodes /\ tail = head
  /\ headLock = Null /\ tailLock = Null
  /\ next = [n \in Nodes |-> Null] /\ data = [n \in Nodes |-> Null]
  /\ free = Nodes \ {head}
  /\ chain = <<head>>
  /\ pc = [t \in Threads |-> "idle"]
  /\ node = [t \in Threads |-> Null] /\ lnext = [t \in Threads |-> Null]
  /\ item = [t \in Threads |-> Null]
  /\ unsent = Items
  /\ dtor = "live"

Goto(t, from, to) ==
  /\ pc[t] = from
  /\ pc' = [pc EXCEPT ![t] = to]

Return(t, from) ==
  /\ Goto(t, from, "idle")
  /\ node' = [node EXCEPT ![t] = Null]
  /\ lnext' = [lnext EXCEPT ![t] = Null]
  /\ item' = [item EXCEPT ![t] = Null]

----------------------------------------------------------------------------
(* enqueue *)

\* new Node(item): the constructor writes item and next of the new node.
CallEnqueue(t, x, n) ==
  /\ dtor = "live"
  /\ x \in unsent /\ n \in free
  /\ Goto(t, "idle", "enqLock")
  /\ unsent' = unsent \ {x}
  /\ free' = free \ {n}
  /\ data' = [data EXCEPT ![n] = x]
  /\ next' = [next EXCEPT ![n] = Null]
  /\ node' = [node EXCEPT ![t] = n]
  /\ item' = [item EXCEPT ![t] = x]
  /\ UNCHANGED <<head, tail, chain, locks, lnext, dtor>>

\* Mutant: one lock for both ends.
EnqLockHead(t) ==
  /\ Goto(t, "enqLock", "enqLink")
  /\ tailLock = Null /\ headLock = Null
  /\ tailLock' = t
  /\ UNCHANGED <<list, headLock, free, locals, unsent, dtor>>

\* Mutant: enqueue does not take tail_lock_.
EnqLockNot(t) ==
  /\ Goto(t, "enqLock", "enqLink")
  /\ UNCHANGED <<list, locks, free, locals, unsent, dtor>>

EnqLock(t) ==
  /\ Goto(t, "enqLock", "enqLink")
  /\ tailLock = Null
  /\ tailLock' = t
  /\ UNCHANGED <<list, headLock, free, locals, unsent, dtor>>

\* tail_->next.store(node)
EnqLink(t) ==
  /\ Goto(t, "enqLink", "enqSwing")
  /\ next' = [next EXCEPT ![tail] = node[t]]
  /\ chain' = Append(chain, node[t])
  /\ UNCHANGED <<head, tail, data, locks, free, locals, unsent, dtor>>

EnqSwing(t) ==
  /\ Goto(t, "enqSwing", "enqUnlock")
  /\ tail' = node[t]
  /\ UNCHANGED <<head, next, data, chain, locks, free, locals, unsent, dtor>>

EnqUnlock(t) ==
  /\ Return(t, "enqUnlock")
  /\ tailLock' = Null
  /\ UNCHANGED <<list, headLock, free, unsent, dtor>>

----------------------------------------------------------------------------
(* dequeue *)

CallDequeue(t) ==
  /\ dtor = "live"
  /\ Goto(t, "idle", "deqLock")
  /\ UNCHANGED <<list, locks, free, locals, unsent, dtor>>

\* Mutant: dequeue does not take head_lock_.
DeqLockNot(t) ==
  /\ Goto(t, "deqLock", "deqRead")
  /\ UNCHANGED <<list, locks, free, locals, unsent, dtor>>

DeqLock(t) ==
  /\ Goto(t, "deqLock", "deqRead")
  /\ headLock = Null
  /\ headLock' = t
  /\ UNCHANGED <<list, tailLock, free, locals, unsent, dtor>>

\* dummy = head_ and new_head = dummy->next.load()
DeqRead(t) ==
  /\ Goto(t, "deqRead", "deqCheck")
  /\ node' = [node EXCEPT ![t] = head]
  /\ lnext' = [lnext EXCEPT ![t] = next[head]]
  /\ UNCHANGED <<list, locks, free, item, unsent, dtor>>

\* Nothing behind the dummy: release the lock and return false.
DeqReturnEmpty(t) ==
  /\ Return(t, "deqCheck")
  /\ lnext[t] = Null
  /\ headLock' = Null
  /\ UNCHANGED <<list, tailLock, free, unsent, dtor>>

DeqCheck(t) ==
  /\ Goto(t, "deqCheck", "deqSwing")
  /\ lnext[t] # Null
  /\ UNCHANGED <<list, locks, free, locals, unsent, dtor>>

\* Mutant: the item of the dummy is taken.
DeqSwingDummy(t) ==
  /\ Goto(t, "deqSwing", "deqUnlock")
  /\ item' = [item EXCEPT ![t] = data[node[t]]]
  /\ head' = lnext[t]
  /\ chain' = Tail(chain)
  /\ UNCHANGED <<tail, next, data, locks, free, node, lnext, unsent, dtor>>

\* Mutant: head_ moves to the node behind the new dummy.
DeqSwingPast(t) ==
  /\ Goto(t, "deqSwing", "deqUnlock")
  /\ item' = [item EXCEPT ![t] = data[lnext[t]]]
  /\ head' = next[lnext[t]]
  /\ chain' = Tail(chain)
  /\ UNCHANGED <<tail, next, data, locks, free, node, lnext, unsent, dtor>>

\* item = new_head->item; head_ = new_head
DeqSwing(t) ==
  /\ Goto(t, "deqSwing", "deqUnlock")
  /\ item' = [item EXCEPT ![t] = data[lnext[t]]]
  /\ head' = lnext[t]
  /\ chain' = Tail(chain)
  /\ UNCHANGED <<tail, next, data, locks, free, node, lnext, unsent, dtor>>

DeqUnlock(t) ==
  /\ Goto(t, "deqUnlock", "deqFree")
  /\ headLock' = Null
  /\ UNCHANGED <<list, tailLock, free, locals, unsent, dtor>>

\* delete dummy, outside the lock
DeqFree(t) ==
  /\ Return(t, "deqFree")
  /\ free' = free \union {node[t]}
  /\ UNCHANGED <<list, locks, unsent, dtor>>

----------------------------------------------------------------------------
(* The destructor, which runs when no call is in progress. *)

Destroy ==
  /\ dtor = "live" /\ \A t \in Threads : pc[t] = "idle"
  /\ dtor' = "running"
  /\ UNCHANGED <<list, locks, free, pc, locals, unsent>>

\* One turn of the loop; the cursor curr is kept in head, which has no reader left.
DeleteNext ==
  /\ dtor = "running" /\ head # Null
  /\ free' = free \union {head}
  /\ head' = next[head]
  /\ UNCHANGED <<tail, next, data, chain, locks, pc, locals, unsent, dtor>>

DestroyDone ==
  /\ dtor = "running" /\ head = Null
  /\ dtor' = "gone"
  /\ UNCHANGED <<list, locks, free, pc, locals, unsent>>

\* The program may end: no deadlock.
Gone == dtor = "gone" /\ UNCHANGED vars

----------------------------------------------------------------------------

Enqueue(t) == EnqLock(t) \/ EnqLink(t) \/ EnqSwing(t) \/ EnqUnlock(t)

Dequeue(t) ==
  \/ DeqLock(t) \/ DeqRead(t) \/ DeqReturnEmpty(t) \/ DeqCheck(t)
  \/ DeqSwing(t) \/ DeqUnlock(t) \/ DeqFree(t)

Call(t) == CallDequeue(t) \/ \E x \in Items, n \in Nodes : CallEnqueue(t, x, n)

Next ==
  \/ \E t \in Threads : Call(t) \/ Enqueue(t) \/ Dequeue(t)
  \/ Destroy \/ DeleteNext \/ DestroyDone \/ Gone

Spec == Init /\ [][Next]_vars

\* Every enqueue that can take a step takes one; a dequeue may stop for ever,
\* even while it holds head_lock_.
FairEnqueues == \A t \in Threads : WF_vars(Enqueue(t))

----------------------------------------------------------------------------
(* Properties *)

\* From head_ on the list holds the nodes in the order they were linked, all
\* of them allocated.  tail_ is the last of them, except between the two
\* stores of the enqueue that holds tail_lock_: there tail_ may even be a
\* node that a dequeue has already deleted.
ListShape ==
  dtor = "live" =>
    /\ chain # <<>> /\ head = chain[1]
    /\ \A i \in 1..Len(chain) :
         /\ chain[i] \notin free
         /\ next[chain[i]] = IF i = Len(chain) THEN Null ELSE chain[i + 1]
    /\ \/ tail = chain[Len(chain)]
       \/ \E t \in Threads : tailLock = t /\ pc[t] = "enqSwing"

\* The node the next step of thread t dereferences or deletes, if any.
Deref(t) ==
  CASE pc[t] = "enqLink"  -> {tail}
    [] pc[t] = "deqRead"  -> {head}
    [] pc[t] = "deqSwing" -> {lnext[t]}
    [] pc[t] = "deqFree"  -> {node[t]}
    [] OTHER              -> {}

\* No step follows a null or deleted pointer or deletes a node twice, in spite
\* of the delete outside the lock and of addresses that are handed out again;
\* when the destructor is done every node has been deleted.
MemorySafe ==
  /\ \A t \in Threads : Deref(t) \intersect (free \union {Null}) = {}
  /\ dtor = "running" => head \notin free
  /\ dtor = "gone" => free = Nodes

StageOf(t) ==
  CASE pc[t] \in {"enqLock", "enqLink"}                 -> "enq"
    [] pc[t] \in {"enqSwing", "enqUnlock"}              -> "enqDone"
    [] pc[t] \in {"deqUnlock", "deqFree"}               -> "deqDone"
    [] pc[t] \in {"deqLock", "deqRead", "deqSwing"}     -> "deq"
    [] pc[t] = "deqCheck" -> IF lnext[t] = Null THEN "deqEmpty" ELSE "deq"
    [] OTHER                                            -> "idle"

\* The queue is the items of the nodes behind the dummy.  An enqueue takes
\* effect when it links its node, a dequeue when it moves head_, and one that
\* returns false when it reads a null next.
Fifo == INSTANCE FifoQueue WITH
  None  <- Null,
  queue <- [i \in 1..(Len(chain) - 1) |-> data[chain[i + 1]]],
  stage <- [t \in Threads |-> StageOf(t)],
  val   <- item

\* Every call of TwoLockQueue takes effect at one instant between its call and
\* its return, in FIFO order, and false means empty.
Linearizable == Fifo!Spec

\* The two ends do not block each other: every enqueue finishes even if a
\* dequeue stops for ever while it holds head_lock_.
EnqueuesFinish == \A t \in Threads : pc[t] \in EnqueuePcs ~> pc[t] = "idle"

=============================================================================
