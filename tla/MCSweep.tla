------------------------------- MODULE MCSweep -------------------------------
(***************************************************************************)
(* An instance of Sweep, with its benchmarks, for TLC.                     *)
(***************************************************************************)
EXTENDS Sweep

MCQueues == <<"MutexQueue", "LPRQueue">>
MCThreads == <<1, 2>>

=============================================================================
