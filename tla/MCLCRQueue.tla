----------------------------- MODULE MCLCRQueue -----------------------------
(***************************************************************************)
(* Instances of LCRQueue for TLC.                                          *)
(***************************************************************************)
EXTENDS LCRQueue, TLC

CONSTANT Runner \* the one thread the scheduler is fair to

ASSUME Runner \in Threads

\* The threads and the items are interchangeable when no thread is singled out.
Symmetry == Permutations(Threads) \union Permutations(Items)

MCSpec == Spec /\ OnlyFair(Runner)

\* Lock-freedom of the calls of Runner, whatever the other threads do.
RunnerFinishes == LockFree(Runner)

=============================================================================
