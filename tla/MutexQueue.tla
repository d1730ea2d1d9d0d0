----------------------------- MODULE MutexQueue -----------------------------
(***************************************************************************)
(* MutexQueue<T> (include/mutex_queue.hpp): a linked list without a dummy  *)
(* node, under one mutex.  dequeue reads the item of the node it removed   *)
(* and deletes the node after it has released the mutex, and the allocator *)
(* may hand the address out again at once.                                 *)
(*                                                                         *)
(* One action per lock operation and per access to shared memory; the      *)
(* members are plain variables, so only the mutex keeps the accesses apart.*)
(***************************************************************************)
EXTENDS Naturals, Sequences

CONSTANTS Threads, \* the threads that share the queue
          Items,   \* the items they pass through it, each of them once
          Nodes,   \* the addresses the allocator hands out
          Null     \* nullptr

ASSUME NodeAssumption == Null \notin Nodes \union Items \union Threads

NodeOrNull == Nodes \union {Null}

VARIABLES
  head, tail, \* head_ and tail_
  mutex,      \* the thread that holds mutex_, or Null
  next, data, \* next[n], data[n]: Node::next and Node::item
  free,       \* the addresses the allocator may hand out
  chain,      \* history: the nodes linked and not unlinked, oldest first
  pc,         \* pc[t]: the step thread t makes next
  node,       \* node[t]: the local node of enqueue, tmp of dequeue
  item,       \* item[t]: the item thread t enqueues or has dequeued
  unsent,     \* the items no thread has passed to enqueue yet
  dtor        \* how far the destructor has come

list == <<head, tail, next, data, chain>>
locals == <<node, item>>
vars == <<list, mutex, free, pc, locals, unsent, dtor>>

EnqueuePcs == {"enqLock", "enqLink", "enqSwing", "enqUnlock"}
DequeuePcs == {"deqLock", "deqTest", "deqTake", "deqTail", "deqUnlock",
               "deqRead", "deqFree", "deqEmpty"}
Pcs == {"idle"} \union EnqueuePcs \union DequeuePcs

TypeOK ==
  /\ head \in NodeOrNull /\ tail \in NodeOrNull
  /\ mutex \in Threads \union {Null}
  /\ next \in [Nodes -> NodeOrNull] /\ data \in [Nodes -> Items \union {Null}]
  /\ free \subseteq Nodes
  /\ chain \in Seq(Nodes)
  /\ pc \in [Threads -> Pcs]
  /\ node \in [Threads -> NodeOrNull]
  /\ \A t \in Threads :
       node[t] = Null => pc[t] \in {"idle", "deqLock", "deqTest", "deqTake", "deqEmpty"}
  /\ item \in [Threads -> Items \union {Null}]
  /\ unsent \subseteq Items
  /\ dtor \in {"live", "running", "gone"}

Init ==
  /\ head = Null /\ tail = Null
  /\ mutex = Null
  /\ next = [n \in Nodes |-> Null] /\ data = [n \in Nodes |-> Null]
  /\ free = Nodes
  /\ chain = <<>>
  /\ pc = [t \in Threads |-> "idle"]
  /\ node = [t \in Threads |-> Null] /\ item = [t \in Threads |-> Null]
  /\ unsent = Items
  /\ dtor = "live"

Goto(t, from, to) ==
  /\ pc[t] = from
  /\ pc' = [pc EXCEPT ![t] = to]

Return(t, from) ==
  /\ Goto(t, from, "idle")
  /\ node' = [node EXCEPT ![t] = Null]
  /\ item' = [item EXCEPT ![t] = Null]

----------------------------------------------------------------------------
(* enqueue *)

\* new Node(item): the constructor writes item and next of the new node.
CallEnqueue(t, x, n) ==
  /\ dtor = "live"
  /\ x \in unsent /\ n \in free
  /\ Goto(t, "idle", "enqLock")
  /\ unsent' = unsent \ {x}
  /\ free' = free \ {n}
  /\ data' = [data EXCEPT ![n] = x]
  /\ next' = [next EXCEPT ![n] = Null]
  /\ node' = [node EXCEPT ![t] = n]
  /\ item' = [item EXCEPT ![t] = x]
  /\ UNCHANGED <<head, tail, chain, mutex, dtor>>

EnqLock(t) ==
  /\ Goto(t, "enqLock", "enqLink")
  /\ mutex = Null
  /\ mutex' = t
  /\ UNCHANGED <<list, free, locals, unsent, dtor>>

\* head_ = node in an empty list, tail_->next = node in another.
EnqLink(t) ==
  /\ Goto(t, "enqLink", "enqSwing")
  /\ \/ head = Null /\ head' = node[t] /\ UNCHANGED next
     \/ head # Null /\ next' = [next EXCEPT ![tail] = node[t]] /\ UNCHANGED head
  /\ chain' = Append(chain, node[t])
  /\ UNCHANGED <<tail, data, mutex, free, locals, unsent, dtor>>

\* Mutant: tail_ is set by the first enqueue only.
EnqSwingFirst(t) ==
  /\ Goto(t, "enqSwing", "enqUnlock")
  /\ tail' = IF tail = Null THEN node[t] ELSE tail
  /\ UNCHANGED <<head, next, data, chain, mutex, free, locals, unsent, dtor>>

\* tail_ = node
EnqSwing(t) ==
  /\ Goto(t, "enqSwing", "enqUnlock")
  /\ tail' = node[t]
  /\ UNCHANGED <<head, next, data, chain, mutex, free, locals, unsent, dtor>>

EnqUnlock(t) ==
  /\ Return(t, "enqUnlock")
  /\ mutex' = Null
  /\ UNCHANGED <<list, free, unsent, dtor>>

----------------------------------------------------------------------------
(* dequeue *)

CallDequeue(t) ==
  /\ dtor = "live"
  /\ Goto(t, "idle", "deqLock")
  /\ UNCHANGED <<list, mutex, free, locals, unsent, dtor>>

DeqLock(t) ==
  /\ Goto(t, "deqLock", "deqTest")
  /\ mutex = Null
  /\ mutex' = t
  /\ UNCHANGED <<list, free, locals, unsent, dtor>>

DeqTest(t) ==
  /\ Goto(t, "deqTest", IF head = Null THEN "deqEmpty" ELSE "deqTake")
  /\ UNCHANGED <<list, mutex, free, locals, unsent, dtor>>

\* Mutant: the return from an empty queue leaves the mutex locked.
DeqReturnEmptyLocked(t) ==
  /\ Return(t, "deqEmpty")
  /\ UNCHANGED <<list, mutex, free, unsent, dtor>>

DeqReturnEmpty(t) ==
  /\ Return(t, "deqEmpty")
  /\ mutex' = Null
  /\ UNCHANGED <<list, free, unsent, dtor>>

\* Mutant: tmp is read after head_ has moved.
DeqTakeLate(t) ==
  /\ Goto(t, "deqTake", "deqTail")
  /\ node' = [node EXCEPT ![t] = next[head]]
  /\ head' = next[head]
  /\ chain' = Tail(chain)
  /\ UNCHANGED <<tail, next, data, mutex, free, item, unsent, dtor>>

\* tmp = head_ and head_ = head_->next
DeqTake(t) ==
  /\ Goto(t, "deqTake", "deqTail")
  /\ node' = [node EXCEPT ![t] = head]
  /\ head' = next[head]
  /\ chain' = Tail(chain)
  /\ UNCHANGED <<tail, next, data, mutex, free, item, unsent, dtor>>

\* if (head_ == nullptr) tail_ = nullptr
DeqTail(t) ==
  /\ Goto(t, "deqTail", "deqUnlock")
  /\ tail' = IF head = Null THEN Null ELSE tail
  /\ UNCHANGED <<head, next, data, chain, mutex, free, locals, unsent, dtor>>

\* Mutant: tmp is deleted before its item is read.
DeqUnlockDelete(t) ==
  /\ Goto(t, "deqUnlock", "deqRead")
  /\ mutex' = Null
  /\ free' = free \union {node[t]}
  /\ UNCHANGED <<list, locals, unsent, dtor>>

DeqUnlock(t) ==
  /\ Goto(t, "deqUnlock", "deqRead")
  /\ mutex' = Null
  /\ UNCHANGED <<list, free, locals, unsent, dtor>>

\* item = tmp->item, after the mutex was released.
DeqRead(t) ==
  /\ Goto(t, "deqRead", "deqFree")
  /\ item' = [item EXCEPT ![t] = data[node[t]]]
  /\ UNCHANGED <<list, mutex, free, node, unsent, dtor>>

\* delete tmp
DeqFree(t) ==
  /\ Return(t, "deqFree")
  /\ free' = free \union {node[t]}
  /\ UNCHANGED <<list, mutex, unsent, dtor>>

----------------------------------------------------------------------------
(* The destructor, which runs when no call is in progress. *)

Destroy ==
  /\ dtor = "live" /\ \A t \in Threads : pc[t] = "idle"
  /\ dtor' = "running"
  /\ UNCHANGED <<list, mutex, free, pc, locals, unsent>>

DeleteNext ==
  /\ dtor = "running" /\ head # Null
  /\ free' = free \union {head}
  /\ head' = next[head]
  /\ UNCHANGED <<tail, next, data, chain, mutex, pc, locals, unsent, dtor>>

DestroyDone ==
  /\ dtor = "running" /\ head = Null
  /\ tail' = Null
  /\ dtor' = "gone"
  /\ UNCHANGED <<head, next, data, chain, mutex, free, pc, locals, unsent>>

\* The program may end: no deadlock.
Gone == dtor = "gone" /\ UNCHANGED vars

----------------------------------------------------------------------------

Enqueue(t) == EnqLock(t) \/ EnqLink(t) \/ EnqSwing(t) \/ EnqUnlock(t)

Dequeue(t) ==
  \/ DeqLock(t) \/ DeqTest(t) \/ DeqReturnEmpty(t) \/ DeqTake(t)
  \/ DeqTail(t) \/ DeqUnlock(t) \/ DeqRead(t) \/ DeqFree(t)

Call(t) == CallDequeue(t) \/ \E x \in Items, n \in Nodes : CallEnqueue(t, x, n)

Next ==
  \/ \E t \in Threads : Call(t) \/ Enqueue(t) \/ Dequeue(t)
  \/ Destroy \/ DeleteNext \/ DestroyDone \/ Gone

Spec == Init /\ [][Next]_vars

\* Every thread that can take a step of its call takes one in the end.  This
\* does not make the mutex fair: a thread may lose every race for it.
FairThreads == \A t \in Threads : WF_vars(Enqueue(t) \/ Dequeue(t))

----------------------------------------------------------------------------
(* Properties *)

\* Whenever the mutex is free, the nodes from head_ on are allocated, come in
\* the order they were linked and end in nullptr, and tail_ is the last of
\* them, or null with head_.
ListShape ==
  (mutex = Null /\ dtor = "live") =>
    /\ head = IF chain = <<>> THEN Null ELSE chain[1]
    /\ tail = IF chain = <<>> THEN Null ELSE chain[Len(chain)]
    /\ \A i \in 1..Len(chain) :
         /\ chain[i] \notin free
         /\ next[chain[i]] = IF i = Len(chain) THEN Null ELSE chain[i + 1]

\* The node the next step of thread t dereferences or deletes, if any.
Deref(t) ==
  CASE pc[t] = "enqLink" /\ head # Null       -> {tail}
    [] pc[t] = "deqTake"                      -> {head}
    [] pc[t] \in {"deqRead", "deqFree"}       -> {node[t]}
    [] OTHER                                  -> {}

\* No step follows a null or deleted pointer or deletes a node twice, in spite
\* of the read and the delete outside the mutex and of addresses that are
\* handed out again; when the destructor is done every node has been deleted.
MemorySafe ==
  /\ \A t \in Threads : Deref(t) \intersect (free \union {Null}) = {}
  /\ dtor = "running" => head \notin free
  /\ dtor = "gone" => free = Nodes

StageOf(t) ==
  CASE pc[t] \in {"enqLock", "enqLink"}                             -> "enq"
    [] pc[t] \in {"enqSwing", "enqUnlock"}                          -> "enqDone"
    [] pc[t] \in {"deqTail", "deqUnlock", "deqRead", "deqFree"}     -> "deqDone"
    [] pc[t] \in {"deqLock", "deqTest", "deqTake"}                  -> "deq"
    [] pc[t] = "deqEmpty"                                           -> "deqEmpty"
    [] OTHER                                                        -> "idle"

\* The queue is the items of the list.  A call takes effect under the mutex: an
\* enqueue when it links its node, a dequeue when it moves head_.  The item a dequeue will read after it has
\* released the mutex must be the one it removed.
Fifo == INSTANCE FifoQueue WITH
  None  <- Null,
  queue <- [i \in 1..Len(chain) |-> data[chain[i]]],
  stage <- [t \in Threads |-> StageOf(t)],
  val   <- [t \in Threads |->
              IF pc[t] \in {"deqTail", "deqUnlock", "deqRead"}
              THEN data[node[t]] ELSE item[t]]

\* Every call of MutexQueue takes effect at one instant between its call and
\* its return, in FIFO order, and false means empty.
Linearizable == Fifo!Spec

\* No path through a call keeps the mutex for ever.
MutexReturned == \A t \in Threads : mutex = t ~> mutex # t

=============================================================================
