----------------------------- MODULE SlottedND ------------------------------
(***************************************************************************)
(* What rank 0 of old-code/src/reboot/threaded-mpi.c does with examples,   *)
(* without threads and messages: it numbers them, has at most NSlots out,  *)
(* gets their answers in any order and runs novelty detection.             *)
(***************************************************************************)
EXTENDS Naturals, FiniteSets, FiniteSetsExt

CONSTANTS K, MinEx, NSlots, Answers, MaxExamples

VARIABLES
  dealt,        \* examples read: ids 0 .. dealt - 1
  due,          \* ids whose answer has not been handled
  unknowns,     \* ids in the buffer of unknowns
  id,           \* the largest id handled
  lastNDCheck,
  failed        \* the assertion on unknownsSize has stopped the program

ndVars == <<dealt, due, unknowns, id, lastNDCheck, failed>>

Trigger == MinEx * K

Init ==
  /\ dealt = 0 /\ due = {}
  /\ unknowns = {}
  /\ id = 0 /\ lastNDCheck = 0
  /\ failed = FALSE

Deal ==
  /\ dealt < MaxExamples
  /\ Cardinality(due) < NSlots
  /\ due' = due \cup {dealt}
  /\ dealt' = dealt + 1
  /\ UNCHANGED <<unknowns, id, lastNDCheck, failed>>

\* A novelty detection is due with these unknowns when "latest" is the largest
\* id and the last detection was at "last".
RoundDue(buffer, latest, last) ==
  Cardinality(buffer) >= Trigger /\ latest - last > Trigger

\* What a novelty detection leaves: unknowns close to no cluster, and not older
\* than the detection before.
Leftovers(buffer, last) ==
  {{x \in buffer \ near : x >= last} :
     near \in {n \in SUBSET buffer : Cardinality(n) >= MinEx}}

\* An unknown is stored; it may not fit, or set off a novelty detection.
Store(x, latest) ==
  LET buffer == unknowns \cup {x}
  IN IF Cardinality(buffer) >= 2 * Trigger
       THEN /\ unknowns' = buffer /\ failed' = TRUE
            /\ UNCHANGED lastNDCheck
     ELSE IF RoundDue(buffer, latest, lastNDCheck)
       THEN /\ unknowns' \in Leftovers(buffer, lastNDCheck)
            /\ lastNDCheck' = latest
            /\ UNCHANGED failed
       ELSE /\ unknowns' = buffer
            /\ UNCHANGED <<lastNDCheck, failed>>

Handle(x) ==
  /\ ~ failed
  /\ due' = due \ {x}
  /\ id' = Max({id, x})
  /\ \/ UNCHANGED <<unknowns, lastNDCheck, failed>>
     \/ "unknown" \in Answers /\ Store(x, id')
  /\ UNCHANGED dealt

Next == Deal \/ \E x \in due : Handle(x)

Spec == Init /\ [][Next]_ndVars

=============================================================================
