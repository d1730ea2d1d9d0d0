------------------------------- MODULE Client -------------------------------
(***************************************************************************)
(* What the two programs that call the queue classes have in common, the   *)
(* test (Correctness) and the benchmark (Benchmark): a queue q, of which   *)
(* they know no more than its promise FifoQueue.                           *)
(***************************************************************************)
EXTENDS Naturals, Sequences, FiniteSets

CONSTANT None \* no item

VARIABLES queue, stage, val \* the queue q and the calls in progress, see FifoQueue

q == <<queue, stage, val>>

=============================================================================
