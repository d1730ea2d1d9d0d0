----------------------------- MODULE FifoQueue -----------------------------
(***************************************************************************)
(* What every queue class of the repository promises to the threads that   *)
(* call it: enqueue(item) and dequeue(item) each take effect at one        *)
(* instant between the call and the return (linearizability), in first-in  *)
(* first-out order, and dequeue returns false only if the queue was empty  *)
(* at some instant between its call and its return.                        *)
(*                                                                         *)
(* A call passes through stages.  enqueue: "enq" (called), "enqDone" (its  *)
(* item is in the queue, the call has not returned).  dequeue: "deq"       *)
(* (called), "deqDone" (an item was removed for it), "deqEmpty" (it saw    *)
(* the queue empty and may return false, or try again).                    *)
(***************************************************************************)
EXTENDS Sequences

CONSTANTS Threads, \* the threads that call the queue
          Items,   \* the item pointers they pass through it
          None     \* no item

VARIABLES queue,   \* the contents, oldest first
          stage,   \* stage[t]: how far the call of thread t has come
          val      \* val[t]: the item t enqueues or has dequeued, or None

vars == <<queue, stage, val>>

Stages == {"idle", "enq", "enqDone", "deq", "deqDone", "deqEmpty"}

TypeOK ==
  /\ queue \in Seq(Items)
  /\ stage \in [Threads -> Stages]
  /\ val \in [Threads -> Items \union {None}]

Init ==
  /\ queue = <<>>
  /\ stage = [t \in Threads |-> "idle"]
  /\ val = [t \in Threads |-> None]

Pass(t, from, to) ==
  /\ stage[t] = from
  /\ stage' = [stage EXCEPT ![t] = to]

----------------------------------------------------------------------------

CallEnqueue(t, x) ==
  /\ Pass(t, "idle", "enq")
  /\ val' = [val EXCEPT ![t] = x]
  /\ UNCHANGED queue

\* The instant at which enqueue takes effect.
CommitEnqueue(t) ==
  /\ Pass(t, "enq", "enqDone")
  /\ queue' = Append(queue, val[t])
  /\ UNCHANGED val

ReturnEnqueue(t) ==
  /\ Pass(t, "enqDone", "idle")
  /\ val' = [val EXCEPT ![t] = None]
  /\ UNCHANGED queue

CallDequeue(t) ==
  /\ Pass(t, "idle", "deq")
  /\ UNCHANGED <<queue, val>>

\* The instant at which a dequeue that will return true takes effect.
CommitDequeue(t) ==
  /\ queue # <<>>
  /\ Pass(t, "deq", "deqDone")
  /\ val' = [val EXCEPT ![t] = Head(queue)]
  /\ queue' = Tail(queue)

ReturnDequeue(t) ==
  /\ Pass(t, "deqDone", "idle")
  /\ val' = [val EXCEPT ![t] = None]
  /\ UNCHANGED queue

\* The instant at which a dequeue that may return false takes effect.
ObserveEmpty(t) ==
  /\ queue = <<>>
  /\ Pass(t, "deq", "deqEmpty")
  /\ UNCHANGED <<queue, val>>

\* A dequeue that saw the queue empty tries again all the same.
Retry(t) ==
  /\ Pass(t, "deqEmpty", "deq")
  /\ UNCHANGED <<queue, val>>

ReturnEmpty(t) ==
  /\ Pass(t, "deqEmpty", "idle")
  /\ UNCHANGED <<queue, val>>

Next ==
  \E t \in Threads :
    \/ \E x \in Items : CallEnqueue(t, x)
    \/ CommitEnqueue(t) \/ ReturnEnqueue(t)
    \/ CallDequeue(t) \/ CommitDequeue(t) \/ ReturnDequeue(t)
    \/ ObserveEmpty(t) \/ Retry(t) \/ ReturnEmpty(t)

Spec == Init /\ [][Next]_vars

=============================================================================
