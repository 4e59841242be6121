--------------------------- MODULE UnknownBuffer ---------------------------
(***************************************************************************)
(* What MINAS promises about the examples no cluster explains.  An unknown *)
(* waits in a buffer below a limit; now and then a detection looks at the  *)
(* whole buffer.  Each detection explains at least MinEx of the unknowns,  *)
(* and gives up only unknowns that the detection before it had seen too:   *)
(* every unknown gets its second chance.                                   *)
(***************************************************************************)
EXTENDS Integers, FiniteSets

CONSTANTS
  Ids,    \* examples
  MinEx,  \* unknowns a detection explains at the least
  Limit   \* unknowns that never wait together

VARIABLES
  pending,    \* unknowns that wait
  seen,       \* unknowns the last detection looked at
  explained,  \* those of them it found a cluster for
  givenUp     \* and those it discarded

vars == <<pending, seen, explained, givenUp>>

Init == pending = {} /\ seen = {} /\ explained = {} /\ givenUp = {}

Arrive(x) ==
  /\ pending' = pending \cup {x}
  /\ Cardinality(pending') < Limit
  /\ UNCHANGED <<seen, explained, givenUp>>

\* The unknown x arrives and sets off a detection.
Detect(x) ==
  /\ seen' = pending \cup {x}
  /\ explained' \subseteq seen'
  /\ Cardinality(explained') >= MinEx
  /\ givenUp' \subseteq seen \ explained'
  /\ pending' = seen' \ (explained' \cup givenUp')

Next == \E x \in Ids \ pending : Arrive(x) \/ Detect(x)

Spec == Init /\ [][Next]_vars
=============================================================================
