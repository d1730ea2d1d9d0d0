----------------------------- MODULE MCLPRQueue -----------------------------
(***************************************************************************)
(* LPRQueue for TLC: three instances in one run, told apart by the initial *)
(* state.  Rings of one cell, where a cell is reused at once and becomes   *)
(* unsafe; rings of two cells, where dequeues overtake each other; and a   *)
(* third thread, without which no item can slip into a ring between the    *)
(* two looks of a dequeue.                                                 *)
(***************************************************************************)
EXTENDS LPRQueue

CONSTANTS Runner, \* the one thread the scheduler is fair to
          Third   \* the thread that takes part in the third instance only

ASSUME {Runner, Third} \subseteq Threads

VARIABLE crew \* the threads that take part, chosen once

mcVars == <<vars, crew>>

Instances == { [R |-> 1, dequeues |-> 2, crew |-> Threads \ {Third}],
               [R |-> 2, dequeues |-> 3, crew |-> Threads \ {Third}],
               [R |-> 2, dequeues |-> 1, crew |-> Threads] }

MCInit ==
  /\ Init
  /\ crew \in SUBSET Threads
  /\ [R |-> R, dequeues |-> dequeues, crew |-> crew] \in Instances

MCNext ==
  /\ Destroy \/ Finished \/ \E t \in crew : Call(t) \/ Enqueue(t) \/ Dequeue(t)
  /\ UNCHANGED crew

MCSpec == MCInit /\ [][MCNext]_mcVars /\ OnlyFair(Runner)

\* Lock-freedom of the calls of Runner, whatever the other threads do.
RunnerFinishes == LockFree(Runner)

=============================================================================
