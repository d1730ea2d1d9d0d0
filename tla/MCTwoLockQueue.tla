--------------------------- MODULE MCTwoLockQueue ---------------------------
(***************************************************************************)
(* Instance of TwoLockQueue for TLC.                                       *)
(***************************************************************************)
EXTENDS TwoLockQueue

MCSpec == Spec /\ FairEnqueues

=============================================================================
