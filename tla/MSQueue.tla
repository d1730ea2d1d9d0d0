------------------------------ MODULE MSQueue ------------------------------
(***************************************************************************)
(* MSQueue<T> (include/ms_queue.hpp), the Michael-Scott queue: a linked    *)
(* list with a dummy first node in which every shared pointer is a 16-byte *)
(* pointer_t, an address and a counter that each compare-and-swap          *)
(* increments.  dequeue leaks the old dummy (D19); the destructor dequeues *)
(* until the queue is empty and deletes the last dummy.                    *)
(*                                                                         *)
(* One action per shared memory access, together with the thread-local     *)
(* code that follows it.  The node that carries item x is called x; no     *)
(* address is reused, because dequeue frees nothing.                       *)
(***************************************************************************)
EXTENDS Naturals, Sequences

CONSTANTS Threads,  \* the threads that share the queue
          Items,    \* the items they pass through it, each of them once
          Dummy,    \* the node the constructor allocates
          Null,     \* nullptr
          CountMod  \* the counters are unsigned: they wrap here (2^32 in C++)

ASSUME NodeAssumption == Dummy \notin Items /\ Null \notin Items \union {Dummy}
ASSUME CountAssumption == CountMod \in Nat \ {0}

Nodes == Items \union {Dummy}

\* pointer_t
Pointer(n, c) == [ptr |-> n, count |-> c % CountMod]
Pointers == [ptr : Nodes \union {Null}, count : 0..(CountMod - 1)]
NullPtr == Pointer(Null, 0)

VARIABLES
  head, tail,          \* Head and Tail
  next,                \* next[n]: Node::next
  chain,               \* history: the nodes in the order they were linked
  pc,                  \* pc[t]: the shared access thread t makes next
  item,                \* item[t]: the node t enqueues, or whose value it dequeues
  lhead, ltail, lnext, \* the locals head, tail and next of the running call
  unsent,              \* the items no thread has passed to enqueue yet
  dtor,                \* how far the destructor has come
  freed                \* the nodes deleted so far

list == <<head, tail, next, chain>>
locals == <<item, lhead, ltail, lnext>>
life == <<unsent, dtor, freed>>
vars == <<list, pc, locals, life>>

EnqueuePcs == {"E5", "E6", "E7", "E9", "E13"}
DequeuePcs == {"D2", "D3", "D4", "D5", "D10", "D13"}
Pcs == {"idle", "E17", "D20"} \union EnqueuePcs \union DequeuePcs

TypeOK ==
  /\ head \in Pointers /\ head.ptr # Null
  /\ tail \in Pointers /\ tail.ptr # Null
  /\ next \in [Nodes -> Pointers]
  /\ chain \in Seq(Nodes)
  /\ pc \in [Threads -> Pcs]
  /\ item \in [Threads -> Items \union {Null}]
  /\ lhead \in [Threads -> Pointers]
  /\ ltail \in [Threads -> Pointers]
  /\ lnext \in [Threads -> Pointers]
  /\ unsent \subseteq Items
  /\ dtor \in {"live", "drain", "gone"}
  /\ freed \subseteq Nodes

Init ==
  /\ head = Pointer(Dummy, 0) /\ tail = Pointer(Dummy, 0)
  /\ next = [n \in Nodes |-> NullPtr]
  /\ chain = <<Dummy>>
  /\ pc = [t \in Threads |-> "idle"]
  /\ item = [t \in Threads |-> Null]
  /\ lhead = [t \in Threads |-> NullPtr]
  /\ ltail = [t \in Threads |-> NullPtr]
  /\ lnext = [t \in Threads |-> NullPtr]
  /\ unsent = Items
  /\ dtor = "live" /\ freed = {}

Goto(t, from, to) ==
  /\ pc[t] = from
  /\ pc' = [pc EXCEPT ![t] = to]

\* What the locals hold is overwritten before it is read again.
DropLocals(t) ==
  /\ lhead' = [lhead EXCEPT ![t] = NullPtr]
  /\ ltail' = [ltail EXCEPT ![t] = NullPtr]
  /\ lnext' = [lnext EXCEPT ![t] = NullPtr]

Again(t, from, to) ==
  /\ Goto(t, from, to)
  /\ DropLocals(t)
  /\ UNCHANGED item

Return(t, from) ==
  /\ Goto(t, from, "idle")
  /\ DropLocals(t)
  /\ item' = [item EXCEPT ![t] = Null]

\* Tail.compare_exchange_strong(tail, {n, tail.count + 1}), its result not
\* looked at.
CasTail(t, n) ==
  tail' = IF tail = ltail[t] THEN Pointer(n, ltail[t].count + 1) ELSE tail

----------------------------------------------------------------------------
(* enqueue *)

CallEnqueue(t, x) ==
  /\ dtor = "live"
  /\ x \in unsent
  /\ Goto(t, "idle", "E5")
  /\ unsent' = unsent \ {x}
  /\ item' = [item EXCEPT ![t] = x]
  /\ UNCHANGED <<list, lhead, ltail, lnext, dtor, freed>>

E5(t) ==
  /\ Goto(t, "E5", "E6")
  /\ ltail' = [ltail EXCEPT ![t] = tail]
  /\ UNCHANGED <<list, item, lhead, lnext, life>>

E6(t) ==
  /\ Goto(t, "E6", "E7")
  /\ lnext' = [lnext EXCEPT ![t] = next[ltail[t].ptr]]
  /\ UNCHANGED <<list, item, lhead, ltail, life>>

\* Are tail and next consistent, and is there a next node to help to?
E7(t) ==
  /\ \/ ltail[t] # tail /\ Again(t, "E7", "E5")
     \/ /\ ltail[t] = tail
        /\ Goto(t, "E7", IF lnext[t].ptr = Null THEN "E9" ELSE "E13")
        /\ UNCHANGED locals
  /\ UNCHANGED <<list, life>>

\* Mutant: the node is linked by a store.
E9Store(t) ==
  /\ Goto(t, "E9", "E17")
  /\ next' = [next EXCEPT ![ltail[t].ptr] = Pointer(item[t], lnext[t].count + 1)]
  /\ chain' = Append(chain, item[t])
  /\ UNCHANGED <<head, tail, locals, life>>

E9(t) ==
  /\ \/ /\ Goto(t, "E9", "E17")
        /\ next[ltail[t].ptr] = lnext[t]
        /\ next' = [next EXCEPT ![ltail[t].ptr] = Pointer(item[t], lnext[t].count + 1)]
        /\ chain' = Append(chain, item[t])
        /\ UNCHANGED locals
     \/ /\ Again(t, "E9", "E5")
        /\ next[ltail[t].ptr] # lnext[t]
        /\ UNCHANGED <<next, chain>>
  /\ UNCHANGED <<head, tail, life>>

\* Mutant: nobody helps a Tail that lags behind.
E13Not(t) ==
  /\ Again(t, "E13", "E5")
  /\ UNCHANGED <<list, life>>

E13(t) ==
  /\ Again(t, "E13", "E5")
  /\ CasTail(t, lnext[t].ptr)
  /\ UNCHANGED <<head, next, chain, life>>

E17(t) ==
  /\ Return(t, "E17")
  /\ CasTail(t, item[t])
  /\ UNCHANGED <<head, next, chain, life>>

----------------------------------------------------------------------------
(* dequeue *)

CallDequeue(t) ==
  /\ dtor = "live"
  /\ Goto(t, "idle", "D2")
  /\ UNCHANGED <<list, locals, life>>

D2(t) ==
  /\ Goto(t, "D2", "D3")
  /\ lhead' = [lhead EXCEPT ![t] = head]
  /\ UNCHANGED <<list, item, ltail, lnext, life>>

D3(t) ==
  /\ Goto(t, "D3", "D4")
  /\ ltail' = [ltail EXCEPT ![t] = tail]
  /\ UNCHANGED <<list, item, lhead, lnext, life>>

D4(t) ==
  /\ Goto(t, "D4", "D5")
  /\ lnext' = [lnext EXCEPT ![t] = next[lhead[t].ptr]]
  /\ UNCHANGED <<list, item, lhead, ltail, life>>

\* Head has not moved, Tail is at it and it has no successor: return false.
D8(t) ==
  /\ lhead[t] = head /\ lhead[t].ptr = ltail[t].ptr /\ lnext[t].ptr = Null
  /\ Return(t, "D5")
  /\ UNCHANGED <<list, life>>

\* Mutant: an empty list is not told from a Tail that lags behind.
D5NoNull(t) ==
  /\ \/ lhead[t] # head /\ Again(t, "D5", "D2")
     \/ /\ lhead[t] = head
        /\ Goto(t, "D5", IF lhead[t].ptr = ltail[t].ptr THEN "D10" ELSE "D13")
        /\ UNCHANGED locals
  /\ UNCHANGED <<list, life>>

\* Mutant: Head is swung past a Tail that lags behind.
D5NoTail(t) ==
  /\ \/ lhead[t] # head /\ Again(t, "D5", "D2")
     \/ /\ lhead[t] = head /\ lnext[t].ptr # Null
        /\ Goto(t, "D5", "D13")
        /\ UNCHANGED locals
  /\ UNCHANGED <<list, life>>

\* Are head, tail and next consistent, and is Tail falling behind?
D5(t) ==
  /\ \/ lhead[t] # head /\ Again(t, "D5", "D2")
     \/ /\ lhead[t] = head
        /\ \/ lhead[t].ptr = ltail[t].ptr /\ lnext[t].ptr # Null /\ Goto(t, "D5", "D10")
           \/ lhead[t].ptr # ltail[t].ptr /\ Goto(t, "D5", "D13")
        /\ UNCHANGED locals
  /\ UNCHANGED <<list, life>>

D10(t) ==
  /\ Again(t, "D10", "D2")
  /\ CasTail(t, lnext[t].ptr)
  /\ UNCHANGED <<head, next, chain, life>>

\* Mutant: D19 frees the old dummy, as the original algorithm does.
D13Free(t) ==
  /\ \/ /\ head = lhead[t]
        /\ Goto(t, "D13", "D20")
        /\ head' = Pointer(lnext[t].ptr, lhead[t].count + 1)
        /\ item' = [item EXCEPT ![t] = lnext[t].ptr]
        /\ freed' = freed \union {lhead[t].ptr}
        /\ DropLocals(t)
     \/ /\ head # lhead[t]
        /\ Again(t, "D13", "D2")
        /\ UNCHANGED <<head, freed>>
  /\ UNCHANGED <<tail, next, chain, unsent, dtor>>

\* D12 and D13: pvalue = next.ptr->value, then the compare-and-swap of Head;
\* a value read by an attempt that fails is overwritten by the next attempt.
D13(t) ==
  /\ \/ /\ head = lhead[t]
        /\ Goto(t, "D13", "D20")
        /\ head' = Pointer(lnext[t].ptr, lhead[t].count + 1)
        /\ item' = [item EXCEPT ![t] = lnext[t].ptr]
        /\ DropLocals(t)
     \/ /\ head # lhead[t]
        /\ Again(t, "D13", "D2")
        /\ UNCHANGED head
  /\ UNCHANGED <<tail, next, chain, life>>

\* Leak the old dummy and return true.
D20(t) ==
  /\ Return(t, "D20")
  /\ UNCHANGED <<list, life>>

----------------------------------------------------------------------------
(* The destructor, which runs when no call is in progress. *)

Destroy ==
  /\ dtor = "live" /\ \A t \in Threads : pc[t] = "idle"
  /\ dtor' = "drain"
  /\ UNCHANGED <<list, pc, locals, unsent, freed>>

\* One dequeue of the drain loop, which runs alone, up to its return.
Drain ==
  /\ dtor = "drain"
  /\ next[head.ptr].ptr # Null
  /\ head' = Pointer(next[head.ptr].ptr, head.count + 1)
  /\ tail' = IF tail.ptr = head.ptr
             THEN Pointer(next[head.ptr].ptr, tail.count + 1) ELSE tail
  /\ UNCHANGED <<next, chain, pc, locals, life>>

\* The dequeue that returns false, and delete head.ptr.
DeleteHead ==
  /\ dtor = "drain"
  /\ next[head.ptr].ptr = Null
  /\ freed' = freed \union {head.ptr}
  /\ dtor' = "gone"
  /\ UNCHANGED <<list, pc, locals, unsent>>

\* The program may end: no deadlock.
Gone == dtor = "gone" /\ UNCHANGED vars

----------------------------------------------------------------------------

Enqueue(t) == E5(t) \/ E6(t) \/ E7(t) \/ E9(t) \/ E13(t) \/ E17(t)

Dequeue(t) ==
  \/ D2(t) \/ D3(t) \/ D4(t) \/ D5(t) \/ D8(t)
  \/ D10(t) \/ D13(t) \/ D20(t)

Call(t) == CallDequeue(t) \/ \E x \in Items : CallEnqueue(t, x)

Next ==
  \/ \E t \in Threads : Call(t) \/ Enqueue(t) \/ Dequeue(t)
  \/ Destroy \/ Drain \/ DeleteHead \/ Gone

Spec == Init /\ [][Next]_vars

\* The scheduler keeps running thread t inside its call; every other thread
\* may stop for ever at any point of a call.
OnlyFair(t) == WF_vars(Enqueue(t) \/ Dequeue(t))

----------------------------------------------------------------------------
(* Properties *)

Pos(n) == CHOOSE i \in 1..Len(chain) : chain[i] = n

\* The list holds the nodes in the order they were linked, Head never
\* passes Tail, and Tail is the last node or the one before it.
ListShape ==
  /\ \A i \in 1..Len(chain) :
       next[chain[i]].ptr = IF i = Len(chain) THEN Null ELSE chain[i + 1]
  /\ \E h, k \in 1..Len(chain) :
       /\ head.ptr = chain[h] /\ tail.ptr = chain[k]
       /\ h <= k /\ Len(chain) <= k + 1

\* The node the next access of thread t dereferences, if any.  D5 has no
\* null test on the path to D12: next is read after Tail, and only the order
\* of the reads keeps it from being null there.
Deref(t) ==
  CASE pc[t] \in {"E6", "E9"} -> {ltail[t].ptr}
    [] pc[t] = "D4"           -> {lhead[t].ptr}
    [] pc[t] = "D13"          -> {lnext[t].ptr}
    [] OTHER                  -> {}

\* No call follows a null or a freed pointer, although the node behind Head
\* may be retired while another thread holds its address.
MemorySafe == \A t \in Threads : Deref(t) \intersect (freed \union {Null}) = {}

StageOf(t) ==
  CASE pc[t] \in EnqueuePcs -> "enq"
    [] pc[t] = "E17"        -> "enqDone"
    [] pc[t] = "D20"        -> "deqDone"
    [] pc[t] \in DequeuePcs ->
         IF pc[t] = "D5" /\ lhead[t].ptr = ltail[t].ptr /\ lnext[t].ptr = Null
         THEN "deqEmpty" ELSE "deq"
    [] OTHER                -> "idle"

\* The queue is the nodes linked after Head.  An enqueue takes effect at its
\* E9, a dequeue at its D13, and one that returns false when D4 reads a null
\* next.
Fifo == INSTANCE FifoQueue WITH
  None  <- Null,
  queue <- SubSeq(chain, Pos(head.ptr) + 1, Len(chain)),
  stage <- [t \in Threads |-> StageOf(t)],
  val   <- [t \in Threads |->
              IF StageOf(t) \in {"enq", "enqDone", "deqDone"} THEN item[t] ELSE Null]

\* Every call that threads make takes effect at one instant between its call
\* and its return, in FIFO order, and false means empty; the destructor, which
\* drains the queue for no caller, is not a call.
Linearizable == Fifo!Init /\ [][dtor = "live" => Fifo!Next \/ UNCHANGED Fifo!vars]_vars

\* Lock-freedom: a thread that keeps running finishes its call even if all
\* the others stop in the middle of theirs.
LockFree(t) == pc[t] # "idle" ~> pc[t] = "idle"

\* "Basic cleanup to prevent memory leaks during testing" (ms_queue.hpp:47):
\* once the destructor is done, every node that was allocated is deleted.
NoLeak == dtor = "gone" => freed = Nodes \ unsent

=============================================================================
