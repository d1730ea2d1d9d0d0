# Formal models of the concurrent queues

The repository compares seven FIFO queues for pointers, shared by any number of
threads, in C++: two with locks, three lock-free linked lists, two lock-free
lists of rings. This directory holds TLA+ models of them and of the programs
that test and measure them, the TLC configurations that check the models on
small instances, and TLAPS proofs of properties for every number of threads and
items.

All classes have one interface: `void enqueue(T*)` and `bool dequeue(T*&)`,
which returns `false` when the queue is empty. A test program
(`src/src/correctness.cc`) and a benchmark (`src/src/benchmark.cc`, run by
`src/scripts/sweep.sh`) are instantiated with each class.

## 1. Inventory

| Component | State | Operations | What is hard |
|---|---|---|---|
| `MutexQueue` | `head_`, `tail_`, nodes, one mutex | enqueue, dequeue, destructor | the item is read and the node deleted outside the mutex, while addresses are reused |
| `TwoLockQueue` | `head_`, `tail_`, nodes with an atomic `next`, two mutexes | the same | both ends meet at the dummy node under different locks; the dummy is deleted outside the lock |
| `ValoisQueue` | `head_`, `tail_`, nodes, a stack of retired dummies | the same, `retire` | every interleaving of link, swing, help, dequeue and retire; nothing freed too early or twice, or never |
| `MSQueue` | `Head`, `Tail`, `next`, each a pointer with a counter | the same | the same, and a dereference without null test that only the order of reads protects |
| `PLJQueue` | head, tail and links with counters; a mark in the link | `Snapshot`, `DetermineState`, enqueue, dequeue | eight states, most of them half-done calls that others complete; delinking is a load and a later store |
| `LCRQueue`, `CRQ` | list of rings; per ring head, tail with a closed bit, cells of two words | enqueue, dequeue on both levels, `fixState` | tickets overtake each other, cells become unsafe, rings are closed and replaced while others still use them; unsigned differences |
| `LPRQueue`, `PRQ` | the same with single-word cells (a mark and a value) and thread tokens | the same without `fixState`; dequeue looks at a ring a second time | mark and value change one after the other; the item is taken with a plain store; an item that slips in between the two looks |
| test program | producers, consumers, end markers | `test_n_producers_n_consumers` and four sequential tests | a marker must not overtake an item; each consumer must get one marker |
| benchmark | workers, a barrier, sampled items with time stamps | enqueue, then spin until a dequeue succeeds; export | ends only if no item is lost; stamps are written by two workers and read by a third thread |
| sweep script | result files, timeout markers | one trial after the other, resumable | failing trials, a stop at any command, what the next sweep makes of the files |
| work loop, calibration, plots, build | - | - | sequential arithmetic, output, flags: not modelled |

The queues do not call each other. Threads interact only through the shared
words of a queue, the mutexes, and the allocator, which may hand an address out
again once its node has been deleted.

What makes a queue correct:

* **linearizability**: every call takes effect at one instant between its call
  and its return, items leave in the order they came, and `false` means that
  the queue was empty at an instant of the call (`FifoQueue`);
* the shape of its data structure, on which the next call relies;
* memory safety: no null or freed node is followed, none is freed twice;
* progress: with locks, that no lock is kept; without, that one thread that
  keeps running finishes even if all others stop in the middle of their calls.

`PROJECT.json` lists the hazards of the code line by line, with the properties
that would notice them.

## 2. Modules

| Module | Models | Checked by |
|---|---|---|
| `FifoQueue` | the abstract queue every class promises to be | refined by five modules, used by two |
| `MutexQueue` | `include/mutex_queue.hpp` | `MCMutexQueue`; proofs in `MutexQueueProofs` |
| `TwoLockQueue` | `include/two_lock_queue.hpp` | `MCTwoLockQueue`; proofs in `TwoLockQueueProofs` |
| `ValoisQueue` | `include/valois_queue.hpp` | `MCValoisQueue`; proofs in `ValoisQueueProofs` |
| `MSQueue` | `include/ms_queue.hpp` | `MCMSQueue`; proofs in `MSQueueProofs` |
| `PLJQueue` | `include/plj_queue.hpp` | `MCPLJQueue`; proofs in `PLJQueueProofs` |
| `LCRQueue` | `include/lcr_queue.hpp` | `MCLCRQueue`; proofs in `LCRQueueProofs` |
| `LPRQueue` | `include/lpr_queue.hpp` | `MCLPRQueue`; proofs in `LPRQueueProofs` |
| `Client` | the queue that the next two call, as they see it | (extended by them) |
| `Correctness` | `src/correctness.cc`, the concurrent test, over `FifoQueue` | `MCCorrectness`; proofs in `ProgramProofs` |
| `Benchmark` | `src/benchmark.cc`, one process, over `FifoQueue` | `MCSweep`; proofs in `ProgramProofs` |
| `Sweep` | `scripts/sweep.sh` and the processes it starts (extends `Benchmark`) | `MCSweep`; proofs in `ProgramProofs` |
| `Lists` | sequences of nodes and the pointers that spell them: the vocabulary of the proofs | |

### How a class becomes a module

* Shared words are variables with the names of the code (`head` for `head_`,
  `next[n]` for the `next` of node `n`). A node is its address. In the queues
  that free nothing while they live, an enqueue allocates exactly one node per
  item, so the node that carries item `x` is called `x`; in `MutexQueue` and
  `TwoLockQueue`, which do free, addresses come from a finite set `Nodes` and
  are reused.
* `pc[t]` names the shared access thread `t` makes next; the locals of a call
  are functions of the thread (`lhead`, `ltail`, `lnext`, ...). They are reset
  when they go out of scope or are certain to be overwritten before they are
  read, which keeps the state space small and changes nothing.
* One action is one shared access with the thread-local code up to the next
  one. In `MSQueue` the actions carry the labels E1 to E17 and D1 to D20 of
  the comments. Under a lock an action may cover several accesses that no
  other thread can come between.
* `Call...` starts a call; an item is enqueued at most once (`unsent`), as in
  both client programs, except for the end marker of the test, one pointer that is
  enqueued once for each consumer: the models of the classes have an item of its own
  for every enqueue. The classes other than `LCRQueue` and `LPRQueue` never look at
  the item pointer they pass on, so two equal ones make no difference to them.
  Dequeues are unlimited, except in `LCRQueue` and
  `LPRQueue`, where every dequeue increments a head and `MaxDequeues` bounds
  them.
* The destructors run when no call is in progress, as C++ demands.
* The atomics are interleaved, one step at a time. On the target of the
  Makefile (g++, native x86-64, `-mcx16`) every shared write but the ones
  before publication is a locked instruction or an exchange
  (a store to a `std::atomic` is sequentially consistent by default), loads are not
  reordered with loads, and a weak compare-and-swap fails only on unequal
  values; 16-byte atomics are taken to be atomic, as libatomic makes them.
* History variables (`chain`, `contents`, `prior`, ...) are written and never
  read by an action.

### The abstract queue and the refinement mappings

`FifoQueue` has a sequence, and a stage per thread: a call is made, takes
effect (`CommitEnqueue`, `CommitDequeue`, `ObserveEmpty`), returns. A dequeue
that has seen the queue empty may also try again: `ValoisQueue` and `MSQueue`
read a null `next` and then find that the head has moved. Each of the five
modules instantiates it with its linearization points and states
`Linearizable == Fifo!Spec`:

| | enqueue | dequeue, `true` | dequeue, `false` |
|---|---|---|---|
| `MutexQueue` | the node is linked (or becomes `head_`), under the mutex | `head_` moves | `head_` is read as null |
| `TwoLockQueue` | `next` of the last node is stored | `head_` moves | `next` of the dummy is read as null |
| `ValoisQueue`, `MSQueue` | the link | the swing of the head | `next` is read as null |
| `PLJQueue` | the link, or the first object becomes the tail | the head moves, or the only object is marked | the tail is read as null for the second time |

In `MSQueue` the destructor itself dequeues, for no caller; there the property
constrains the steps before it. In `LCRQueue` and `LPRQueue` the linearization
point of an enqueue depends on the future, so no mapping of this kind exists:
there `AtMostOnce` (`ExactlyOnce`) and `OrderKept` state the parts of it that
the code keeps.

### The rings of `LPRQueue`

A cell has a mark (safe bit and epoch) and a value. An enqueue reads both
(`EMark`, `EVal`), puts its token where the value was (`EToken`), moves the mark
to the epoch of its ticket (`EEpoch`) and exchanges the token for the item
(`EPut`). A dequeue reads mark, value and mark again (`DMark`, `DVal`, `DMark2`);
`Decide` says what it does next: take the item (`DTake`, a plain store), take a
token away (`DToken`) and move the epoch on (`DSkip`), mark the cell unsafe
(`DUnsafe`), or leave it. `again` tells the two looks of `LPRQueue::dequeue`
apart. The token of a thread is the thread itself: the code takes the address
of a thread-local byte, with the lowest bit set, which no item has.

### The programs around the queues

`Correctness`, `Benchmark` and `Sweep` take the queue to be anything that
behaves as `FifoQueue`, and so apply to the five classes shown to implement it.
What is shown of them does not extend to `LCRQueue`, which loses items (section 4),
and for `LPRQueue` it rests on `NoneStranded`, `ExactlyOnce` and `OrderKept`.

The actions of the test (`TestNext`) are the calls and returns of its threads
(`Produce`, `Enqueued`, `Consume`, `Consumed`, `SendEnd`), what happens inside a
call (`QueueStep`), and `Verify`, where the joined vectors are compared.

In `Benchmark` an action is a call of the queue or a return from one, with the
code of the worker around it; time is left out, and `stamps[x]` tells which of the
four time stamps of an item exist. `Sweep` adds the script: `shell` is the
command it is at, and a benchmark process (`Launch`, `RunWorker`, `RunMain`,
`Succeeds`, `Fails`) exists while it waits. `Fails` may strike at any point, for a
timeout or any other status but 0. SIGINT is remembered in `sigint` and handled
when the current command ends, as bash does; the benchmark goes on meanwhile,
since `timeout` puts it into a process group of its own. `Killed` ends shell and
benchmark at any point, and `Restart` starts the next sweep on the files that
are left.

## 3. Runs

Every run finishes its whole state space. Numbers are distinct states.

| Run | Instance | States | Shows |
|---|---|---|---|
| `mutex` | 3 threads, 3 items, 2 addresses | 35,986 | memory safety with reuse, linearizability, the mutex always comes back |
| `two_lock` | 3 threads, 3 items, 3 addresses | 174,831 | the same, and the shape of the list; enqueues finish although a dequeue stops for ever with its lock |
| `valois` | 3 threads, 2 items | 95,099 | shape, memory safety down to the last step of the destructor, linearizability, lock-freedom |
| `ms` | 3 threads, 2 items, counters modulo 2 | 69,875 | the same without the destructor's part |
| `ms_leak` | 1 thread, 2 items | violation | the destructor leaves nodes allocated |
| `plj` | 3 threads, 2 items, symmetry | 86,017 | Figure 2, linearizability, counters never set back |
| `plj_progress` | 2 threads, 3 items | 161,208 | lock-freedom |
| `lcr` | 2 threads, 2 items, 3 dequeues, rings of 2 cells | 146,388 | no stranded item, tickets given once and rings closed for good, none twice, order, lock-freedom |
| `lcr_loss` | 3 threads, 2 items, 1 dequeue, rings of 8 cells | violation | an item is lost |
| `lpr` | 2 items; rings of 1 cell, 2 dequeues, 2 threads; rings of 2 cells, 3 dequeues, 2 threads; rings of 2 cells, 1 dequeue, 3 threads | 396,135 | every item in one place and reachable until it comes out, order, lock-freedom |
| `correctness` | 2 producers of 2 items, 2 consumers | 29,750 | the assertions of the test hold, and the test ends |
| `sweep` | 2 queues, 1 and 2 threads, 2 trials, 4 operations, 2 samples, stopped up to twice | 110,819 | result files and markers agree, complete files are measurements, sweeps end |

### The properties

* `TypeOK`: one per module. In the pointer queues its substance is that
  head and tail never become null; in `PLJQueue` that a dequeue that succeeded
  knows its object.
* `ListShape` (`FigureTwo` in `PLJQueue`): the list spells the nodes in the
  order they were linked, the head does not pass the tail, and the tail lags at
  most one node behind; in the lock queues, whenever the lock allows a look. In
  `MutexQueue` it is proved but not a property of the run: under the one mutex
  nothing can go wrong with the list that `MemorySafe` and `Linearizable` do not
  tell. A stale `tail_` would not matter, since `enqueue` asks `head_`.
* `MemorySafe`: the node the next access of each thread dereferences is neither
  null nor freed. With the destructors: no double free, and nothing left.
* `Linearizable`: the refinement of `FifoQueue`.
* `LinkCounted`: the counter of a link in `PLJQueue` is never set back, although
  delinking loads it and stores it later.
* `NoneStranded`: the ticket of an item in a cell has not been drawn by a dequeue
  of its ring yet, or the dequeue that has it is still at the cell. This is what
  the safe bit and the spoilt index are for. In `LPRQueue` the ring must also
  still be reachable from `_head`, which the second look of dequeue is for; its
  mutant without that look violates it. In `LCRQueue` it may be a ring that
  `_head` has left, so that nobody will ever draw the ticket: `NoneStranded` does
  not see that loss, `AllConsumed` does (section 4).
* `TailForward` (`LCRQueue`): the tail of a ring never goes back, and a closed ring
  is never opened again, although `fixState` writes a head it has read earlier over
  a tail from which others take tickets and in which they set the closed bit.
  `NoneStranded`, `AtMostOnce` and `OrderKept` do not see a `fixState` that stores
  without comparing; the mutant of `TailForward` is that one.
* `AtMostOnce`: an item is in one cell or has come out once. `ExactlyOnce` in
  `LPRQueue` adds that it is nowhere else once its enqueue has returned.
* `OrderKept`: a dequeue returns `x` only if nothing that came out before the
  dequeue was called had been enqueued wholly after `x`.
* `MutexReturned`, `EnqueuesFinish`, `RunnerFinishes`: progress.
* `AssertionsHold`: the assertions at the end of the concurrent test, for every
  linearizable queue: a test that fails tells of the queue. It also says that no
  marker is left over. `TestEnds`: every consumer gets a marker.
* `ResultFiles`: where a marker stands there are no results of that cell or of a
  later one; after a sweep that came to its end every other trial has its file,
  with all stamps of all sampled items. The exception is in the property: a file
  that was being written when an earlier sweep was stopped (`torn`) is kept as
  it is, since `sweep.sh` tests only whether the file exists (line 35).
* `SweepEnds`: a sweep that is not stopped ends, with no help from the timeout.
  The workers cannot starve each other: a worker dequeues only after it has
  enqueued, so there is an item for every worker that spins.

### Bounds, and why they are enough

Two enqueues and any number of dequeues of three threads give every pair of
calls an adversary in the third: a link, a lagging tail, a helper and a dequeue
that overtakes meet in these instances; the mutants listed in `PROJECT.json`
(a dropped test, a store for a compare-and-swap, a lock not taken, a free too
early) are all found in them. With locks a third item on two (three) addresses
makes the last enqueue reuse an address that was deleted while other threads
may still be after it. `CountMod = 2` in `ms` makes the counters useless on
purpose: without reuse of addresses the algorithm does not need them. In `plj`
the counters do not wrap (`CountMod = 16`), as a wrap is 2^32 updates away in
the code. `R` is 1024 in the code; rings of 1 and 2 cells fill, wrap around and
are replaced within two items. `StarvingThreshold` equals `R` as in the code.
Symmetry is used in runs without liveness only.

`MCLPRQueue` checks three instances in one run, told apart by the initial state
(`R` and `dequeues` are chosen there, `crew` holds the threads that take part).
Rings of one cell reuse it at once and make it unsafe; with two cells and three
dequeues, dequeues overtake each other; with a third thread, an item can slip into
a ring between the two looks of a dequeue while another thread links the next
ring.

Two producers, two consumers and two items each are the least with which an item
can be overtaken within a producer and between producers, and one consumer can
end while the other still holds an item. In `sweep` a cell with a lower and one
with a higher thread count, two trials to wipe, and two stops let a stop hit a
half-wiped cell and another hit the sweep that repairs it. Two of four items are
sampled, so items of either kind pass between workers.

### Fairness

The lock-free queues promise something about a thread that runs, so exactly one
thread, `Runner`, gets weak fairness, and the others may stop for ever in any
step: this is what the operating system gives at least. In `two_lock` the steps
of enqueues are weakly fair (`FairEnqueues`), and dequeues may stop, also with
`head_lock_`. An enqueue that waits for `tail_lock_` obtains it because the
instance has finitely many items, so finitely many enqueues compete for it;
`std::mutex` itself promises no more than that somebody gets it. In `mutex` every
thread that can take a step of its call takes one in the end (`FairThreads`);
`std::mutex` is not fair, so only the return of the mutex is claimed, not that
every caller obtains it. The test and the benchmark join their threads and so
rely on all of them being scheduled: there every thread is weakly fair, and so is
the script of the sweep. Failures, signals, kills and restarts have no fairness.

Weak fairness of a thread of `Correctness` or `Benchmark` covers the step in which
its call takes effect (`QueueStep`), so `TestEnds` and `SweepEnds` assume that no
call of the queue is overtaken for ever. No class promises this: `std::mutex` is
not fair, and lock-freedom is about some thread, not each. An enqueue that loses
every race for the mutex against spinning consumers (`src/correctness.cc:114-124`)
keeps the test from ending, and no property here excludes it. What
the two properties show is that nothing else does: no marker or item is missing
that a consumer or worker waits for.

## 4. Findings

* **`ms_leak`** (`include/ms_queue.hpp:47`): the destructor says it cleans up "to
  prevent memory leaks", but drains the queue with a `dequeue` that deletes
  nothing and then deletes a single node.
* **`lcr_loss`** (`include/lcr_queue.hpp:229`): `LCRQueue::dequeue` leaves a ring
  that was empty when it looked, as soon as there is a next one. An enqueue that
  had taken its ticket in between still puts its item into the old ring, where no
  dequeue will ever look. `LPRQueue` looks a second time, `LCRQueue` does not.
  Three threads, two enqueues and one dequeue are enough, and the ring need not
  be full: the enqueue that the dequeue has overtaken closes the ring at once,
  because the unsigned `t - h` wraps (line 117). `LPRQueue` shares the wrap; in the
  instances of the run `lpr` its second look makes up for it. In the test program
  the item is missing from `allConsumedItems` (`src/correctness.cc:148`), or, if it
  is an end marker, a consumer spins for ever; in the benchmark a worker spins
  until the timeout of the sweep.

## 5. Proofs

### The queue classes

A `...Proofs` module extends the module of a class and proves, for every number
of threads, items and addresses:

| Theorem | Mutex | TwoLock | Valois | MS | PLJ | LCR | LPR |
|---|---|---|---|---|---|---|---|
| `TypeCorrect`: `Spec => []TypeOK` | yes | yes | yes | yes | yes | yes | yes |
| `LockExcludes`, `LocksExclude`: one thread at a time between lock and unlock | yes | yes | - | - | - | - | - |
| `ListKeepsShape`: `Spec => []ListShape` (PLJ: `FigureTwoAlways`, `[]FigureTwo`) | yes | yes | yes | yes | * | - | - |
| `MemoryIsSafe`: `Spec => []MemorySafe` (PLJ: `NoNullFollowed`) | yes | yes | yes | yes | yes | - | - |
| `LinksAlwaysCounted`: `Spec => LinkCounted` | - | - | - | - | * | - | - |
| `IsLinearizable`: `Spec => Linearizable` | yes | yes | yes | yes | * | - | - |
| `NothingStranded`: `Spec => []NoneStranded` | - | - | - | - | - | yes | yes |
| `TailsGoForward`: `Spec => TailForward` | - | - | - | - | - | yes | - |
| `NoneTwice` (LPR: `EveryItemOnce`): `Spec => []AtMostOnce` (`[]ExactlyOnce`) | - | - | - | - | - | yes | yes |
| `FirstInFirstOut`: `Spec => OrderKept` | - | - | - | - | - | yes | yes |

\* with finitely many items and `2 * Cardinality(Items) + 2 <= CountMod`, or for
any number of them until a counter reaches its last value (`NoWrap`).

**Assumptions.** `NodeAssumption`: the dummy, `nullptr` and the items differ; in
the lock queues `Null` is not a thread either, because there it also says that a
lock is free. `CountAssumption` (`MSQueue`, `PLJQueue`): the counters have at least one value.
Of the first four nothing else is assumed: no set is finite, and the counters of
`MSQueue` may wrap at once. `PLJQueue` is different: see below. `LPRQueue` has
`ValuesAssumption` (`nullptr`, tokens and items differ) and `SizeAssumption` (a ring
has at least one cell, the items are finitely many, since the model numbers the rings
by them); threads, items and calls of dequeue may be any number, and `R` is any size.
`LCRQueue` has the same two, without tokens (`NullAssumption`).

**`Lists`** has the words in which they speak of a sequence of nodes without
repetition and of the pointers that spell it. Each proof module begins with the
lemmas it needs about them: what appending a node, reading a pointer or taking the
first node off does to the order of the nodes, and to the part behind a node
(`Rest`).

**Why stronger invariants.** None of the properties is inductive: a step stores
what a thread read some time ago, guarded by a lock or by a compare-and-swap. Each
`IInv` therefore relates what the threads remember to the list. `chain`, the nodes
in the order they were linked, is the thread that runs through all of them.

*Valois and MS.* Every remembered tail comes before the present one in `chain`,
every remembered head before the present one, and a head before the tail read
after it (`LocalsLinked`); a `next` once read as not null is the successor of its
node for good (`NextKept`); a node that is not linked yet is on no list and belongs
to one call (`Fresh`). So a compare-and-swap on `tail` that succeeds moves it one
node forward (`TailMoves`), and one on `head` moves it to a node that is at most
`tail`. In `MSQueue`, D5 goes on to D13 without a test that `next` is not null;
`NextKept` says why it need not test: `Head` was read before `Tail`, `Tail` before
`next`, and a node with a later node behind it has a successor. No step of this
proof looks at a count.

*Memory safety of Valois.* `Retirement` says where every node is: on `chain` from
`head` on, held by exactly one dequeue between its swing and its push, or on the
list of retired nodes (`RetiredList`, spelled backwards by `retired_next`), and
that the destructor has freed a prefix of that order (`Freed`). Hence no node is
freed twice, and none is left.

*The lock queues.* The lock names the thread in the critical section (`Locked`,
`Locks`); a node that is not on the list belongs to one call, also after the unlock
(`Private`, `Fields`); between two stores of a critical section only `tail` lags
(`TailLast`); every address is free, on the list or in the hands of a call
(`Accounted`), which is what makes handing out an address safe, and the destructor
complete (`Destroying`). In `TwoLockQueue` what a dequeue reads under its lock
stays true while enqueues link nodes under the other (`Reads`).

*PLJ.* Nothing in the list itself stops a late compare-and-swap: the same null can
come back to head and tail, so only the counters tell an old snapshot from the
present. `Counted` says that a word whose counter is the one that was read has not
changed; `ReadTail`, `ReadLink` and `Known` say for each place of a call what then
follows for the queue (with the tail unchanged, the node behind it is the last; with
the head unchanged, an empty queue is still empty). Whatever a step does to head,
tail, links and history is one of nine moves (`Moves`), the arrows of Figure 2: each
keeps `Empty \/ Full`, and `Evolves` says what survives it, so that a thread's
knowledge is kept under the moves of all the others by one lemma (`OthersKnow`)
instead of one per pair of steps. A counter that wraps falsifies `Counted`, so
`IInv` is kept by a step from a state where none has its last value: the theorems
`FigureTwoHolds`, `LinksAreCounted` and `IsLinearizableUntilWrap` have the hypothesis
`[]NoWrap`.

*Why that is no vacuous hypothesis.* `NoCounterWraps` proves `[]NoWrap` while
`2 * Cardinality(Items) + 2 <= CountMod`: in the code, for the first 2^31 - 1
enqueues, however many calls retry, help or find the queue empty. `Budget` bounds
each counter by two updates per object that has entered (`Entered`): an object
becomes the tail once and leaves it for null at most once (`TailSpent`), the same for
the head (`HeadSpent`), and its link is written when the next object is linked or it
is marked, and when it is delinked (`LinkSpent`). The three sums count the updates
that are still to come, which makes them inductive. With it the
three theorems hold without `NoWrap`. `TypeCorrect` and `NoNullFollowed` need neither.

*LCR.* A cell changes only by a compare-and-swap of both of its words, so whoever
changes one knows what was in it; `CellStep` sorts the steps of all calls by what they
do to a cell, and `GrowStep` shows that a cell never becomes again what it was: its
index grows, or an item comes. `Gone` says what a dequeue that has left its cell leaves
behind: an index past its ticket, or an unsafe cell. An enqueue may use an unsafe cell
after a look at `_head` (`EHead`). `Saw` and `Awaits` say why that look does not go
stale: a dequeue that draws the ticket later is still at the cell as long as the cell
is what the enqueue has read, because leaving an empty cell moves its index. `Waiting`
is `NoneStranded`. That `_head` may leave a ring with an item in it (section 4) does
not contradict it: the ticket of the item is still to be drawn, but from a ring that
no call reaches any more. `Once` follows the items as in `LPRQueue`.

`TailForward` is `Forward` and `ClosedStep`: the compare-and-swap of `fixState`
compares a tail that was open and below the head it writes (`Locals`), and a ring is
not closed before it is linked.

*LPR.* The epoch of a cell never falls, and a cell becomes `Full` (it holds an item, or
a token whose thread is about to exchange it for one) only in the step that moves its
epoch on. So a thread that has read the mark of a cell and then its value knows what
the value still is unless the epoch has moved, and a compare-and-swap of the mark
notices that (`Knows`): an enqueue never marks a cell that has become full since it
looked, and the plain store of a dequeue overwrites the item it has read and nothing
else. `CellStep` sorts the steps of all calls into ten kinds by what they do to a cell,
and `CellEvolves` says once for all of them how a cell may change. For the dequeues,
`Gone` says what one that has left its cell leaves behind: an epoch that is not below
its own, or an unsafe cell. An enqueue that meets an unsafe cell asks `_head` whether
its ticket has been taken (`EHead`), and `Awaits` says why the answer does not go stale:
a later dequeue leaves this cell by moving the epoch, which the enqueue notices, or by
marking it unsafe once more, which it does only for an item, and there was none when
the enqueue looked. `Waiting` is `NoneStranded` from the moment the epoch is set, before
the item is there. `Passed` is the argument for the second look: the ring was closed
before that look began, so when it ends every ticket an enqueue still holds and every
item of the ring is below its `_head` (`Drained`), and there will be no others. `Once`
follows the items: a step puts one that was nowhere into a cell that holds none, takes
one out, or leaves all where they are (`ItemsStep`).

*Order in LCR and LPR.* An item has a place, its ring and its ticket; in `LPRQueue` the
ticket is that of the epoch of its cell (`Place`). Heads, tails and tickets only go
forward (`Forward`, `TurnForward`). `AheadOf` says that a place comes before an item,
wherever the item is: before its cell; before the ticket its enqueue has, or can still
draw; once it has come out, before the place `_head` has come to, and before the ticket
of every dequeue that knew of it when it was called. What is ahead of an item
stays ahead of it (`AheadStep`), and `InOrder` says of every item in a cell that it is
ahead of the items whose enqueues began after its own had returned. That starts to hold
when such an enqueue begins, because its item is nowhere yet (`NotBehind`), and while it
looks for a ring, because `_tail` has reached the ring of whatever has entered
(`Reached`; in `LCRQueue` together with `Drawn`). A dequeue that took the older item
after a younger one was known to be out would be ahead of itself.

**Refinement.** `IsLinearizable` maps every step to a step of `FifoQueue` or to a
stutter. In the lock queues `chain` is the list, and the abstract queue its items.
In `ValoisQueue` and `MSQueue` `chain` holds all nodes ever linked, and the abstract
queue is what is behind `head`: `RestAppend` makes a link an enqueue, and
`RestFollows` makes a swing of the head a dequeue of the first item. In `PLJQueue`
the history `contents` is the abstract queue, and the invariant says what it has to:
the object that a successful dequeue takes is its first (`FifoTake`), and a null tail
read twice means that it was empty.

### The test, the benchmark and the sweep

`ProgramProofs` proves of the programs around the queues:

| Theorem | States | For every |
|---|---|---|
| `TestAssertions` | `TestSpec => []AssertionsHold` | number of producers, consumers and items |
| `SweepTypes` | `Spec => []SweepTypeOK` | list of queues, increasing list of thread counts, number of trials, operations, samples and stops |
| `SweepResults` | `Spec => []ResultFiles` | the same |

**Assumptions.** There is at least one producer, one consumer and one item
(`CountsAssumption`), and the end marker is no item (`MarkersAssumption`). The sweep
has at least one queue and one thread count, the counts are increasing, and every
worker has at least one operation (`SweepAssumption`; `sweep.sh` divides 38,400,000
among at most 192 threads). `TRIALS` may be zero, and `MaxSamples` too. The queue is
`FifoQueue`, no more: with `IsLinearizable`, `TestAssertions` says that a test of one
of the five classes whose assertion fails has met something outside their models.

*The test.* No assertion can be read off the state of one consumer, so `TestInv` counts
an item from the instant its enqueue takes effect (`Produced`) and as received from the
instant a dequeue has it (`Received`), although neither has returned yet. `Delivery`
says that each of those items is in the queue or with one consumer, that the items of
a producer stand in order in the queue and with each consumer, and that what a consumer
has got of a producer comes before what is still in the queue: that is what makes
`val > lastSeen[producerId]` true after the next dequeue. `Termination` says that in the
queue the markers stand behind all items, that as many markers were sent as are in it or
have been met (`Met`), and that once one has been met no item is left. It relies on the
join: no marker is sent before every producer has ended (`MainCalls`). So when all
consumers have ended every item is with one of them, once (`Places`), and no marker is
left over.

*The benchmark.* `BenchInv` is about one process. `Owing` is the set of workers that
have put one item more into the queue than they have taken out, and the length of the
queue is its cardinality: at the join it is empty, and so is the queue. `Accounted`
follows each item from the enqueue on: in the queue, held by a dequeue that has not
returned, or stamped by it. `WorkerStamps` has the other two stamps. Together they give
`ExportMeasured`: when the rows are written, every sampled item has all four.

*The files.* `FilesInv` says what a stopped sweep can leave behind. The files of a queue
fill cell by cell (`InOrder`), which a stop cannot disturb because `rm` empties a cell
only when the cells above it are empty (`NoneAhead`); where a marker stands, nothing
(`MarkedAbsent`): the marker is written after the cell is wiped. What this sweep has
passed is marked or has its file (`Visited`), and a cell it works on is not marked
(`Cursor`). A file is incomplete only while its trial runs, until it is removed, or when
an earlier sweep was stopped (`Incomplete`). That a new marker may stand below an old
one, or be emptied by a kill, does not hurt: an old marker is above the cell, or the
script would have skipped it.

### Only model-checked

Liveness, and so everything about locks that come back, lock-freedom, `TestEnds` and
`SweepEnds`: out of the prover's reach. Of
`PLJQueue` after a counter has wrapped only the types and that no null is followed are
proved, and nothing is checked.

## 6. Not modelled

* A promise about rings that `_head` has left: the destructors of `LCRQueue` and
  `LPRQueue` are modelled and leave them allocated, which no document denies. So
  `Destroy` and `freed` are there because the destructor is an operation of the
  class and ends all calls; no property is about them.
* The four sequential tests of `src/correctness.cc` (lines 17-81): fixed sequences
  of calls of one thread. Measured times, CPU pinning, the printed summary
  and the arguments of `src/benchmark.cc`; output errors of the result file. A
  benchmark that outlives a killed shell and writes beside the next sweep.
* The reuse of an address after a 32-bit counter wrapped; padding bytes of
  `pointer_t` in a 16-byte compare-and-swap; failure of `new`.
* Weak memory: the models interleave the atomics (see section 2).
* `work.hpp`, `calibrate.cc`, `plot.py`, the Makefile: no concurrency, no state.

## 7. Plan

1. Done: the abstract queue, all seven queues, the concurrent test, the benchmark
   and the sweep.
2. Done: type correctness, list shape, memory safety and linearizability of
   `MutexQueue`, `TwoLockQueue`, `ValoisQueue` and `MSQueue` proved.
3. Done: type correctness of `PLJQueue`, and while no counter wraps `FigureTwo`,
   `LinkCounted` and linearizability; how many objects that allows.
4. Done: type correctness, `NoneStranded`, `ExactlyOnce` (`AtMostOnce`) and `OrderKept` of
   `LPRQueue` and `LCRQueue` proved, and `TailForward` of `LCRQueue`.
5. Done: the assertions of the test and the result files of the sweep proved. With
   that every safety property a passing run checks is a theorem, those of `PLJQueue`
   until a counter wraps.
6. Open: liveness, which stays with TLC; the hazards in `PROJECT.json` without a
   property.
