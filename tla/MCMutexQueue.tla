---------------------------- MODULE MCMutexQueue ----------------------------
(***************************************************************************)
(* Instance of MutexQueue for TLC.                                         *)
(***************************************************************************)
EXTENDS MutexQueue

MCSpec == Spec /\ FairThreads

=============================================================================
