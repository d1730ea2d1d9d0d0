----------------------------- MODULE MCPLJQueue -----------------------------
(***************************************************************************)
(* Instances of PLJQueue for TLC.                                          *)
(***************************************************************************)
EXTENDS PLJQueue, TLC

CONSTANT Runner \* the one thread the scheduler is fair to

ASSUME Runner \in Threads

\* For safety: threads and items are interchangeable.
Symmetry == Permutations(Threads) \union Permutations(Items)

\* For progress.
MCSpec == Spec /\ OnlyFair(Runner)

\* Lock-freedom of the calls of Runner, whatever the other threads do.
RunnerFinishes == LockFree(Runner)

=============================================================================
