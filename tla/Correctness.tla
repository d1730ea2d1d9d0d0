----------------------------- MODULE Correctness -----------------------------
(***************************************************************************)
(* The concurrent test of the repository, test_n_producers_n_consumers     *)
(* (src/correctness.cc:83): producers each enqueue a section of the items, *)
(* consumers dequeue until they meet the end marker, and the main thread,  *)
(* when the producers have ended, enqueues one marker for each consumer.   *)
(* The queue is anything that keeps the promise FifoQueue.                 *)
(***************************************************************************)
EXTENDS Client

CONSTANTS NProducers, NConsumers, \* n_producers, n_consumers
          ItemsPerProducer,       \* ITEMS_PER_PRODUCER (100000 in C++)
          End                     \* end_ptr

ASSUME CountsAssumption ==
  NProducers \in Nat \ {0} /\ NConsumers \in Nat \ {0} /\ ItemsPerProducer \in Nat \ {0}
ASSUME MarkersAssumption == End # None /\ {End, None} \intersect Nat = {}

Items == 0..(NProducers * ItemsPerProducer - 1)
Producers == {<<"producer", p>> : p \in 0..(NProducers - 1)}
Consumers == {<<"consumer", c>> : c \in 0..(NConsumers - 1)}
Main == <<"main", 0>>
Threads == Producers \union Consumers \union {Main}

VARIABLES
  pos,               \* pos[t]: the calls of enqueue that have returned to t
  ended,             \* the consumers that have received a marker
  consumedItems,     \* consumedItems[c], a vector for each consumer
  verified           \* the consumers are joined and the assertions evaluated

test == <<q, pos, ended, consumedItems, verified>>

Queue == INSTANCE FifoQueue WITH Items <- Items \union {End}

TypeOK ==
  /\ Queue!TypeOK
  /\ pos \in [Threads -> 0..(ItemsPerProducer + NConsumers)]
  /\ ended \subseteq Consumers
  /\ consumedItems \in [Consumers -> Seq(Items)]
  /\ verified \in BOOLEAN

TestInit ==
  /\ Queue!Init
  /\ pos = [t \in Threads |-> 0]
  /\ ended = {}
  /\ consumedItems = [c \in Consumers |-> <<>>]
  /\ verified = FALSE

\* What happens inside a call.
QueueStep(t) ==
  /\ \/ Queue!CommitEnqueue(t) \/ Queue!CommitDequeue(t)
     \/ Queue!ObserveEmpty(t) \/ Queue!Retry(t)
  /\ UNCHANGED <<pos, ended, consumedItems, verified>>

Enqueued(t) ==
  /\ Queue!ReturnEnqueue(t)
  /\ pos' = [pos EXCEPT ![t] = @ + 1]
  /\ UNCHANGED <<ended, consumedItems, verified>>

----------------------------------------------------------------------------

start(p) == p[2] * ItemsPerProducer

\* Each producer enqueues a contiguous section of items.
Produce(p) ==
  /\ pos[p] < ItemsPerProducer
  /\ Queue!CallEnqueue(p, start(p) + pos[p])
  /\ UNCHANGED <<pos, ended, consumedItems, verified>>

\* A consumer dequeues until it receives end_ptr; false makes it try again.
Consume(c) ==
  /\ c \notin ended
  /\ Queue!CallDequeue(c)
  /\ UNCHANGED <<pos, ended, consumedItems, verified>>

ConsumeNothing(c) ==
  /\ Queue!ReturnEmpty(c)
  /\ UNCHANGED <<pos, ended, consumedItems, verified>>

Consumed(c) ==
  /\ Queue!ReturnDequeue(c)
  /\ IF val[c] = End
     THEN ended' = ended \union {c} /\ UNCHANGED consumedItems
     ELSE consumedItems' = [consumedItems EXCEPT ![c] = Append(@, val[c])] /\ UNCHANGED ended
  /\ UNCHANGED <<pos, verified>>

\* Mutant: the markers are sent before the producers are joined.
SendEndEarly ==
  /\ pos[Main] < NConsumers
  /\ Queue!CallEnqueue(Main, End)
  /\ UNCHANGED <<pos, ended, consumedItems, verified>>

\* Mutant: one marker for all consumers.
SendEndOnce ==
  /\ \A p \in Producers : pos[p] = ItemsPerProducer
  /\ pos[Main] < 1
  /\ Queue!CallEnqueue(Main, End)
  /\ UNCHANGED <<pos, ended, consumedItems, verified>>

\* The producers are joined; one marker for each consumer.
SendEnd ==
  /\ \A p \in Producers : pos[p] = ItemsPerProducer
  /\ pos[Main] < NConsumers
  /\ Queue!CallEnqueue(Main, End)
  /\ UNCHANGED <<pos, ended, consumedItems, verified>>

\* The consumers are joined.
Verify ==
  /\ pos[Main] = NConsumers
  /\ ended = Consumers
  /\ verified' = TRUE
  /\ UNCHANGED <<q, pos, ended, consumedItems>>

TestFinished == verified /\ UNCHANGED test

Step(t) ==
  \/ QueueStep(t) \/ Enqueued(t)
  \/ t \in Producers /\ Produce(t)
  \/ t \in Consumers /\ (Consume(t) \/ ConsumeNothing(t) \/ Consumed(t))
  \/ t = Main /\ (SendEnd \/ (~verified /\ Verify))

TestNext == TestFinished \/ \E t \in Threads : Step(t)

\* The test joins its threads: it relies on each of them being scheduled, and on
\* every call of the queue taking effect some day.  Neither std::mutex, which is
\* not fair, nor lock-freedom promises that to a call while consumers spin.
TestSpec == TestInit /\ [][TestNext]_test /\ \A t \in Threads : WF_test(Step(t))

----------------------------------------------------------------------------
(* Properties *)

ProducerId(x) == x \div ItemsPerProducer

\* assert(val > lastSeen[producerId]) (correctness.cc:140): no consumer sees
\* the items of one producer out of order.
OrderedPerProducer ==
  \A c \in Consumers : \A j, k \in DOMAIN consumedItems[c] :
    (j < k /\ ProducerId(consumedItems[c][j]) = ProducerId(consumedItems[c][k]))
      => consumedItems[c][j] < consumedItems[c][k]

\* The places of allConsumedItems at which item x is.
Places(x) ==
  {w \in Consumers \X (1..Cardinality(Items)) :
     w[2] \in DOMAIN consumedItems[w[1]] /\ consumedItems[w[1]][w[2]] = x}

\* assert(allConsumedItems == items) (correctness.cc:148): when all consumers
\* have ended, every item is in one of their vectors once, although a consumer
\* ends as soon as it meets any marker, while others still hold items; and no
\* marker is left in the queue.
AllConsumed ==
  verified =>
    /\ \A x \in Items : Cardinality(Places(x)) = 1
    /\ queue = <<>>

\* What the test asserts holds for every queue that keeps the promise.
AssertionsHold == TypeOK /\ OrderedPerProducer /\ AllConsumed

\* Every consumer receives a marker and the test ends, if no call of the queue is
\* overtaken for ever (TestSpec).
TestEnds == <>verified

=============================================================================
