------------------------------ MODULE MCMSQueue ------------------------------
(***************************************************************************)
(* Instance of MSQueue for TLC.                                            *)
(***************************************************************************)
EXTENDS MSQueue

CONSTANT Runner \* the one thread the scheduler is fair to

ASSUME Runner \in Threads

MCSpec == Spec /\ OnlyFair(Runner)

\* Lock-freedom of the calls of Runner, whatever the other threads do.
RunnerFinishes == LockFree(Runner)

=============================================================================
