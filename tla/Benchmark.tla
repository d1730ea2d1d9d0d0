------------------------------ MODULE Benchmark ------------------------------
(***************************************************************************)
(* One run of the benchmark (src/benchmark.cc): n_threads workers meet at  *)
(* a barrier and then alternate between enqueuing an item of their own     *)
(* section and dequeuing any item, trying until they get one.  The items   *)
(* marked for sampling carry time stamps, written by the worker that       *)
(* enqueues and by the one that dequeues; the main thread joins the        *)
(* workers and exports the stamps to a file.                               *)
(*                                                                         *)
(* The queue is anything that keeps the promise FifoQueue.  Time is not    *)
(* modelled, only which stamps have been written.  An action is a call of  *)
(* the queue or a return from one, with the worker's own code around it:   *)
(* stamps are read only after the join.                                    *)
(***************************************************************************)
EXTENDS Client

CONSTANTS MaxThreads, \* the largest n_threads
          MaxSamples  \* max_samples, 0 for no limit

ASSUME BenchmarkAssumption == MaxThreads \in Nat \ {0} /\ MaxSamples \in Nat

VARIABLES
  process,           \* the process: "off", "run", "export"
  n_threads, ops_per_thread, \* its arguments
  at,                \* at[t]: where worker t is
  i,                 \* i[t]: the pairs of calls that worker t has completed
  stamps             \* stamps[x]: the stamps of TestItem x that are written

args == <<n_threads, ops_per_thread>>
bench == <<process, args, q, at, i, stamps>>

AllWorkers == 0..(MaxThreads - 1)
Workers == 0..(n_threads - 1)
count == ops_per_thread * n_threads
TestItems == 0..(count - 1)

BenchQueue == INSTANCE FifoQueue WITH Threads <- AllWorkers, Items <- Nat

AllStamps == {"enqueue_start", "enqueue_done", "dequeue_start", "dequeue_done"}

BenchmarkTypeOK ==
  /\ process \in {"off", "run", "export"}
  /\ BenchQueue!TypeOK
  /\ at \in [AllWorkers -> {"start", "wait", "enqueue", "dequeue", "end"}]
  /\ i \in [AllWorkers -> Nat]
  /\ stamps \in [TestItems -> SUBSET AllStamps]

\* No process, or the state of a process that has just been started.
Fresh(p, n, ops) ==
  /\ process' = p /\ n_threads' = n /\ ops_per_thread' = ops
  /\ queue' = <<>>
  /\ stage' = [t \in AllWorkers |-> "idle"] /\ val' = [t \in AllWorkers |-> None]
  /\ at' = [t \in AllWorkers |-> "start"] /\ i' = [t \in AllWorkers |-> 0]
  /\ stamps' = [x \in 0..(n * ops - 1) |-> {}]

BenchmarkInit ==
  /\ process = "off" /\ n_threads = 0 /\ ops_per_thread = 0
  /\ BenchQueue!Init
  /\ at = [t \in AllWorkers |-> "start"] /\ i = [t \in AllWorkers |-> 0]
  /\ stamps = << >>

Launch(n, ops) == process = "off" /\ Fresh("run", n, ops)
Exit == Fresh("off", 0, 0)

\* A deterministic, evenly spaced subset of the items is sampled.
stride == IF MaxSamples > 0 /\ count > MaxSamples THEN count \div MaxSamples ELSE 1
should_sample(x) == x % stride = 0

Goto(t, from, to) ==
  /\ process = "run"
  /\ at[t] = from
  /\ at' = [at EXCEPT ![t] = to]
  /\ UNCHANGED <<process, args>>

Stamp(x, s) ==
  stamps' = IF should_sample(x) THEN [stamps EXCEPT ![x] = @ \union s] ELSE stamps

----------------------------------------------------------------------------
(* A worker *)

\* start_test.arrive_and_wait()
Arrive(t) ==
  /\ Goto(t, "start", "wait")
  /\ UNCHANGED <<q, i, stamps>>

\* Mutant: a worker that has left the barrier is no longer counted.
PassBarrierOnce(t) ==
  /\ Goto(t, "wait", "enqueue")
  /\ \A w \in Workers : at[w] = "wait"
  /\ UNCHANGED <<q, i, stamps>>

PassBarrier(t) ==
  /\ Goto(t, "wait", "enqueue")
  /\ \A w \in Workers : at[w] # "start"
  /\ UNCHANGED <<q, i, stamps>>

my_item(t) == t * ops_per_thread + i[t]

CallEnqueue(t) ==
  /\ Goto(t, "enqueue", "enqueue")
  /\ BenchQueue!CallEnqueue(t, my_item(t))
  /\ Stamp(my_item(t), {"enqueue_start"})
  /\ UNCHANGED i

EnqueueReturns(t) ==
  /\ Goto(t, "enqueue", "dequeue")
  /\ BenchQueue!ReturnEnqueue(t)
  /\ Stamp(my_item(t), {"enqueue_done"})
  /\ UNCHANGED i

\* t0 is taken before every attempt.
CallDequeue(t) ==
  /\ Goto(t, "dequeue", "dequeue")
  /\ BenchQueue!CallDequeue(t)
  /\ UNCHANGED <<i, stamps>>

DequeueFails(t) ==
  /\ Goto(t, "dequeue", "dequeue")
  /\ BenchQueue!ReturnEmpty(t)
  /\ UNCHANGED <<i, stamps>>

DequeueReturns(t) ==
  /\ Goto(t, "dequeue", IF i[t] + 1 < ops_per_thread THEN "enqueue" ELSE "end")
  /\ BenchQueue!ReturnDequeue(t)
  /\ Stamp(val[t], {"dequeue_start", "dequeue_done"})
  /\ i' = [i EXCEPT ![t] = @ + 1]

\* What happens inside a call of the queue.
InCall(t) ==
  /\ process = "run"
  /\ \/ BenchQueue!CommitEnqueue(t) \/ BenchQueue!CommitDequeue(t)
     \/ BenchQueue!ObserveEmpty(t) \/ BenchQueue!Retry(t)
  /\ UNCHANGED <<process, args, at, i, stamps>>

Worker(t) ==
  /\ t \in Workers
  /\ \/ Arrive(t) \/ PassBarrier(t) \/ CallEnqueue(t) \/ EnqueueReturns(t)
     \/ CallDequeue(t) \/ DequeueFails(t) \/ DequeueReturns(t) \/ InCall(t)

----------------------------------------------------------------------------
(* The main thread *)

\* The workers are joined; std::ofstream f(output_file) creates the file.
OpenOutput ==
  /\ process = "run"
  /\ \A t \in Workers : at[t] = "end"
  /\ process' = "export"
  /\ UNCHANGED <<args, q, at, i, stamps>>

\* The rows are written, the file is closed and the process ends.
CloseOutput == process = "export" /\ Exit

\* The rows that export_results writes are differences of stamps that exist.
SamplesMeasured == \A x \in TestItems : should_sample(x) => stamps[x] = AllStamps

=============================================================================
