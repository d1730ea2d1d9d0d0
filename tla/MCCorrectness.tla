---------------------------- MODULE MCCorrectness ----------------------------
(***************************************************************************)
(* An instance of Correctness for TLC.                                     *)
(***************************************************************************)
EXTENDS Correctness

=============================================================================
