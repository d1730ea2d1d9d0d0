---------------------------- MODULE ValoisQueue ----------------------------
(***************************************************************************)
(* ValoisQueue<T> (include/valois_queue.hpp): a lock-free linked list with *)
(* a dummy first node.  enqueue links a node at the end with a             *)
(* compare-and-swap and then swings tail_; dequeue swings head_ and pushes *)
(* the old dummy on the retired list, which only the destructor frees.     *)
(*                                                                         *)
(* One action per shared memory access, together with the thread-local     *)
(* code that follows it.  enqueue allocates one node per item, so the node *)
(* that carries item x is called x; no address is reused while the queue   *)
(* lives, because nothing is freed before the destructor.                  *)
(***************************************************************************)
EXTENDS Naturals, Sequences

CONSTANTS Threads, \* the threads that share the queue
          Items,   \* the items they pass through it, each of them once
          Dummy,   \* the node the constructor allocates
          Null     \* nullptr

ASSUME NodeAssumption == Dummy \notin Items /\ Null \notin Items \union {Dummy}

Nodes == Items \union {Dummy}
NodeOrNull == Nodes \union {Null}

VARIABLES
  head, tail,          \* head_ and tail_
  next,                \* next[n]: Node::next
  retired,             \* retired_, the top of the retired list
  retiredNext,         \* retiredNext[n]: Node::retired_next
  chain,               \* history: the nodes in the order they were linked
  pc,                  \* pc[t]: the shared access thread t makes next
  item,                \* item[t]: the node t enqueues, or whose item it dequeues
  lhead, ltail, lnext, \* the locals head, tail and next of the running call
  lold,                \* the local old_retired of retire()
  unsent,              \* the items no thread has passed to enqueue yet
  dtor, cursor,        \* how far the destructor has come, and its local curr
  freed                \* the nodes deleted so far

list == <<head, tail, next, chain>>
retirement == <<retired, retiredNext>>
locals == <<item, lhead, ltail, lnext, lold>>
life == <<unsent, dtor, cursor, freed>>
vars == <<list, retirement, pc, locals, life>>

EnqueuePcs == {"enqTail", "enqNext", "enqCheck", "enqLink", "enqHelp"}
DequeuePcs == {"deqHead", "deqTail", "deqNext", "deqCheck", "deqHelp", "deqSwing"}
Pcs == {"idle", "enqSwing", "retLoad", "retPush"} \union EnqueuePcs \union DequeuePcs

TypeOK ==
  /\ head \in Nodes /\ tail \in Nodes
  /\ next \in [Nodes -> Items \union {Null}]
  /\ retired \in NodeOrNull /\ retiredNext \in [Nodes -> NodeOrNull]
  /\ chain \in Seq(Nodes)
  /\ pc \in [Threads -> Pcs]
  /\ item \in [Threads -> Items \union {Null}]
  /\ lhead \in [Threads -> NodeOrNull] /\ ltail \in [Threads -> NodeOrNull]
  /\ lnext \in [Threads -> Items \union {Null}] /\ lold \in [Threads -> NodeOrNull]
  /\ unsent \subseteq Items
  /\ dtor \in {"live", "chain", "retired", "gone"}
  /\ cursor \in NodeOrNull
  /\ freed \subseteq Nodes

Init ==
  /\ head = Dummy /\ tail = Dummy
  /\ next = [n \in Nodes |-> Null]
  /\ retired = Null /\ retiredNext = [n \in Nodes |-> Null]
  /\ chain = <<Dummy>>
  /\ pc = [t \in Threads |-> "idle"]
  /\ item = [t \in Threads |-> Null]
  /\ lhead = [t \in Threads |-> Null] /\ ltail = [t \in Threads |-> Null]
  /\ lnext = [t \in Threads |-> Null] /\ lold = [t \in Threads |-> Null]
  /\ unsent = Items
  /\ dtor = "live" /\ cursor = Null /\ freed = {}

Goto(t, from, to) ==
  /\ pc[t] = from
  /\ pc' = [pc EXCEPT ![t] = to]

\* The locals head, tail and next go out of scope.
DropLocals(t) ==
  /\ lhead' = [lhead EXCEPT ![t] = Null]
  /\ ltail' = [ltail EXCEPT ![t] = Null]
  /\ lnext' = [lnext EXCEPT ![t] = Null]

\* The loop starts over.
Again(t, from, to) ==
  /\ Goto(t, from, to)
  /\ DropLocals(t)
  /\ UNCHANGED <<item, lold>>

\* The call returns.
Return(t, from) ==
  /\ Goto(t, from, "idle")
  /\ DropLocals(t)
  /\ item' = [item EXCEPT ![t] = Null]
  /\ lold' = [lold EXCEPT ![t] = Null]

\* tail_.compare_exchange_strong(tail, new), its result not looked at.
CasTail(t, new) == tail' = IF tail = ltail[t] THEN new ELSE tail

----------------------------------------------------------------------------
(* enqueue *)

CallEnqueue(t, x) ==
  /\ dtor = "live"
  /\ x \in unsent
  /\ Goto(t, "idle", "enqTail")
  /\ unsent' = unsent \ {x}
  /\ item' = [item EXCEPT ![t] = x]
  /\ UNCHANGED <<list, retirement, lhead, ltail, lnext, lold, dtor, cursor, freed>>

EnqReadTail(t) ==
  /\ Goto(t, "enqTail", "enqNext")
  /\ ltail' = [ltail EXCEPT ![t] = tail]
  /\ UNCHANGED <<list, retirement, item, lhead, lnext, lold, life>>

EnqReadNext(t) ==
  /\ Goto(t, "enqNext", "enqCheck")
  /\ lnext' = [lnext EXCEPT ![t] = next[ltail[t]]]
  /\ UNCHANGED <<list, retirement, item, lhead, ltail, lold, life>>

EnqCheck(t) ==
  /\ \/ ltail[t] # tail /\ Again(t, "enqCheck", "enqTail")
     \/ /\ ltail[t] = tail
        /\ Goto(t, "enqCheck", IF lnext[t] = Null THEN "enqLink" ELSE "enqHelp")
        /\ UNCHANGED locals
  /\ UNCHANGED <<list, retirement, life>>

EnqLink(t) ==
  /\ \/ /\ Goto(t, "enqLink", "enqSwing")
        /\ next[ltail[t]] = Null
        /\ next' = [next EXCEPT ![ltail[t]] = item[t]]
        /\ chain' = Append(chain, item[t])
        /\ UNCHANGED locals
     \/ /\ Again(t, "enqLink", "enqTail")
        /\ next[ltail[t]] # Null
        /\ UNCHANGED <<next, chain>>
  /\ UNCHANGED <<head, tail, retirement, life>>

EnqSwing(t) ==
  /\ Return(t, "enqSwing")
  /\ CasTail(t, item[t])
  /\ UNCHANGED <<head, next, chain, retirement, life>>

\* Mutant: nobody helps a tail_ that lags behind.
EnqHelpNot(t) ==
  /\ Again(t, "enqHelp", "enqTail")
  /\ UNCHANGED <<list, retirement, life>>

EnqHelp(t) ==
  /\ Again(t, "enqHelp", "enqTail")
  /\ CasTail(t, lnext[t])
  /\ UNCHANGED <<head, next, chain, retirement, life>>

----------------------------------------------------------------------------
(* dequeue and retire *)

CallDequeue(t) ==
  /\ dtor = "live"
  /\ Goto(t, "idle", "deqHead")
  /\ UNCHANGED <<list, retirement, locals, life>>

DeqReadHead(t) ==
  /\ Goto(t, "deqHead", "deqTail")
  /\ lhead' = [lhead EXCEPT ![t] = head]
  /\ UNCHANGED <<list, retirement, item, ltail, lnext, lold, life>>

DeqReadTail(t) ==
  /\ Goto(t, "deqTail", "deqNext")
  /\ ltail' = [ltail EXCEPT ![t] = tail]
  /\ UNCHANGED <<list, retirement, item, lhead, lnext, lold, life>>

DeqReadNext(t) ==
  /\ Goto(t, "deqNext", "deqCheck")
  /\ lnext' = [lnext EXCEPT ![t] = next[lhead[t]]]
  /\ UNCHANGED <<list, retirement, item, lhead, ltail, lold, life>>

\* head has not moved and has no successor: return false.
DeqReturnEmpty(t) ==
  /\ lhead[t] = head /\ lnext[t] = Null
  /\ Return(t, "deqCheck")
  /\ UNCHANGED <<list, retirement, life>>

\* Mutant: an empty list is not told from a list with a successor.
DeqCheckNoNull(t) ==
  /\ \/ lhead[t] # head /\ Again(t, "deqCheck", "deqHead")
     \/ /\ lhead[t] = head
        /\ Goto(t, "deqCheck", IF lhead[t] = ltail[t] THEN "deqHelp" ELSE "deqSwing")
        /\ UNCHANGED locals
  /\ UNCHANGED <<list, retirement, life>>

\* Mutant: dequeue swings head_ without looking at tail_.
DeqCheckNoTail(t) ==
  /\ \/ lhead[t] # head /\ Again(t, "deqCheck", "deqHead")
     \/ /\ lhead[t] = head /\ lnext[t] # Null
        /\ Goto(t, "deqCheck", "deqSwing")
        /\ UNCHANGED locals
  /\ UNCHANGED <<list, retirement, life>>

DeqCheck(t) ==
  /\ \/ lhead[t] # head /\ Again(t, "deqCheck", "deqHead")
     \/ /\ lhead[t] = head /\ lnext[t] # Null
        /\ Goto(t, "deqCheck", IF lhead[t] = ltail[t] THEN "deqHelp" ELSE "deqSwing")
        /\ UNCHANGED locals
  /\ UNCHANGED <<list, retirement, life>>

DeqHelp(t) ==
  /\ Again(t, "deqHelp", "deqHead")
  /\ CasTail(t, lnext[t])
  /\ UNCHANGED <<head, next, chain, retirement, life>>

\* Mutant: head_ is stored to, not compared and swapped.
DeqSwingStore(t) ==
  /\ Goto(t, "deqSwing", "retLoad")
  /\ head' = lnext[t]
  /\ item' = [item EXCEPT ![t] = lnext[t]]
  /\ UNCHANGED <<lhead, ltail, lnext, lold, tail, next, chain, retirement, life>>

\* item = next->item, then the compare-and-swap of head_; an item read by an
\* attempt that fails is overwritten by the next attempt.
DeqSwing(t) ==
  /\ \/ /\ head = lhead[t]
        /\ Goto(t, "deqSwing", "retLoad")
        /\ head' = lnext[t]
        /\ item' = [item EXCEPT ![t] = lnext[t]]
        /\ UNCHANGED <<lhead, ltail, lnext, lold>>
     \/ /\ head # lhead[t]
        /\ Again(t, "deqSwing", "deqHead")
        /\ UNCHANGED head
  /\ UNCHANGED <<tail, next, chain, retirement, life>>

RetireLoad(t) ==
  /\ Goto(t, "retLoad", "retPush")
  /\ lold' = [lold EXCEPT ![t] = retired]
  /\ UNCHANGED <<list, retirement, item, lhead, ltail, lnext, life>>

\* Mutant: retired_ is stored to, not compared and swapped.
RetirePushStore(t) ==
  /\ Return(t, "retPush")
  /\ retired' = lhead[t]
  /\ retiredNext' = [retiredNext EXCEPT ![lhead[t]] = lold[t]]
  /\ UNCHANGED <<list, life>>

\* The store to node->retired_next (the node is not shared yet) and the
\* compare-and-swap, which reloads old_retired when it fails.  On the x86
\* target of the Makefile a weak compare-and-swap fails for no other reason.
RetirePush(t) ==
  /\ \/ /\ Return(t, "retPush")
        /\ retired = lold[t]
        /\ retired' = lhead[t]
     \/ /\ Goto(t, "retPush", "retPush")
        /\ retired # lold[t]
        /\ lold' = [lold EXCEPT ![t] = retired]
        /\ UNCHANGED <<retired, item, lhead, ltail, lnext>>
  /\ retiredNext' = [retiredNext EXCEPT ![lhead[t]] = lold[t]]
  /\ UNCHANGED <<list, life>>

----------------------------------------------------------------------------
(* The destructor, which runs when no call is in progress. *)

Destroy ==
  /\ dtor = "live" /\ \A t \in Threads : pc[t] = "idle"
  /\ dtor' = "chain" /\ cursor' = head
  /\ UNCHANGED <<list, retirement, pc, locals, unsent, freed>>

\* delete_chain follows next, delete_retired follows retired_next.
DeleteChain ==
  /\ dtor = "chain"
  /\ IF cursor # Null
     THEN freed' = freed \union {cursor} /\ cursor' = next[cursor] /\ UNCHANGED dtor
     ELSE dtor' = "retired" /\ cursor' = retired /\ UNCHANGED freed
  /\ UNCHANGED <<list, retirement, pc, locals, unsent>>

DeleteRetired ==
  /\ dtor = "retired"
  /\ IF cursor # Null
     THEN freed' = freed \union {cursor} /\ cursor' = retiredNext[cursor] /\ UNCHANGED dtor
     ELSE dtor' = "gone" /\ UNCHANGED <<cursor, freed>>
  /\ UNCHANGED <<list, retirement, pc, locals, unsent>>

\* The program may end: no deadlock.
Gone == dtor = "gone" /\ UNCHANGED vars

----------------------------------------------------------------------------

Enqueue(t) ==
  \/ EnqReadTail(t) \/ EnqReadNext(t) \/ EnqCheck(t)
  \/ EnqLink(t) \/ EnqSwing(t) \/ EnqHelp(t)

Dequeue(t) ==
  \/ DeqReadHead(t) \/ DeqReadTail(t) \/ DeqReadNext(t) \/ DeqReturnEmpty(t)
  \/ DeqCheck(t) \/ DeqHelp(t) \/ DeqSwing(t) \/ RetireLoad(t) \/ RetirePush(t)

Call(t) == CallDequeue(t) \/ \E x \in Items : CallEnqueue(t, x)

Next ==
  \/ \E t \in Threads : Call(t) \/ Enqueue(t) \/ Dequeue(t)
  \/ Destroy \/ DeleteChain \/ DeleteRetired \/ Gone

Spec == Init /\ [][Next]_vars

\* The scheduler keeps running thread t inside its call; every other thread
\* may stop for ever at any point of a call.
OnlyFair(t) == WF_vars(Enqueue(t) \/ Dequeue(t))

----------------------------------------------------------------------------
(* Properties *)

Pos(n) == CHOOSE i \in 1..Len(chain) : chain[i] = n

\* The list holds the nodes in the order they were linked, head_ never
\* passes tail_, and tail_ is the last node or the one before it, whatever
\* the interleaving of link, swing, help and dequeue.
ListShape ==
  /\ \A i \in 1..Len(chain) :
       next[chain[i]] = IF i = Len(chain) THEN Null ELSE chain[i + 1]
  /\ \E h, k \in 1..Len(chain) :
       /\ head = chain[h] /\ tail = chain[k]
       /\ h <= k /\ Len(chain) <= k + 1

\* The node the next access of thread t dereferences, if any.
Deref(t) ==
  CASE pc[t] \in {"enqNext", "enqLink"}   -> {ltail[t]}
    [] pc[t] \in {"deqNext", "retPush"}   -> {lhead[t]}
    [] pc[t] = "deqSwing"                 -> {lnext[t]}
    [] OTHER                              -> {}

\* No call follows a null or a freed pointer; the destructor frees no node
\* twice and, when it is done, has freed every node ever allocated: the
\* chain from head_ and the retired list share no node and miss none.
MemorySafe ==
  /\ \A t \in Threads : Deref(t) \intersect (freed \union {Null}) = {}
  /\ cursor \notin freed
  /\ dtor = "gone" => freed = Nodes \ unsent

StageOf(t) ==
  CASE pc[t] \in EnqueuePcs               -> "enq"
    [] pc[t] = "enqSwing"                 -> "enqDone"
    [] pc[t] \in {"retLoad", "retPush"}   -> "deqDone"
    [] pc[t] \in DequeuePcs ->
         IF pc[t] = "deqCheck" /\ lnext[t] = Null THEN "deqEmpty" ELSE "deq"
    [] OTHER                              -> "idle"

\* The queue is the nodes linked after head_.  An enqueue takes effect when
\* it links its node, a dequeue when it swings head_, and a dequeue that
\* returns false when it reads a null next.
Fifo == INSTANCE FifoQueue WITH
  None  <- Null,
  queue <- SubSeq(chain, Pos(head) + 1, Len(chain)),
  stage <- [t \in Threads |-> StageOf(t)],
  val   <- [t \in Threads |->
              IF StageOf(t) \in {"enq", "enqDone", "deqDone"} THEN item[t] ELSE Null]

\* Every call of ValoisQueue takes effect at one instant between its call
\* and its return, in FIFO order, and false means empty.
Linearizable == Fifo!Spec

\* Lock-freedom: a thread that keeps running finishes its call even if all
\* the others stop in the middle of theirs.
LockFree(t) == pc[t] # "idle" ~> pc[t] = "idle"

=============================================================================
