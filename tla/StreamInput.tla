---------------------------- MODULE StreamInput ----------------------------
(***************************************************************************)
(* The input that the serial program, src/src/online-nd.c, and rank 0 of   *)
(* the MPI program, src/src/threaded-mpi.c, read line by line: cluster     *)
(* lines, which both parse into a local struct that is never initialised,  *)
(* and example lines.                                                      *)
(***************************************************************************)
EXTENDS Minas

CONSTANTS
  LineLabels,   \* labels of the clusters in the input
  StackSleep,   \* values the uninitialised isSleep of "cluster" can have
  MaxExamples,  \* bound: example lines in the input
  MaxLines      \* bound: clusters taken from the input

ASSUME InputAssumption ==
  /\ LineLabels \subseteq Nat
  /\ StackSleep \subseteq BOOLEAN /\ StackSleep # {}
  /\ MaxExamples \in Nat
  /\ MaxLines \in Nat
=============================================================================
