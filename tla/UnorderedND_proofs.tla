------------------------- MODULE UnorderedND_proofs -------------------------
(***************************************************************************)
(* Theorems about novelty detection out of order, for every value of its   *)
(* constants: the types and the two assertions hold in the MPI program as  *)
(* they do in the serial one, because they do not depend on the ids.       *)
(***************************************************************************)
EXTENDS UnorderedND, Minas_proofs

\* RootOK says that the buffer is below its limit; the assertions follow.
Inv == TypeOK /\ RootOK(root)

LEMMA InitInv ==
  ASSUME Init
  PROVE  Inv
<1>1. RootOK(root)
  BY EmptyRootOK DEF Init
<1> QED
  BY <1>1 DEF Inv, Init, TypeOK, RootOK

\* What a step may do to the round: only an unknown begins one.
RoundKept ==
  root'.round # root.round =>
    Cardinality(root'.st.unknowns) <= (K - 1) * (MinEx - 1)

LEMMA NextInv ==
  ASSUME Inv, [Next]_vars
  PROVE  Inv' /\ RoundKept
<1>1. RootOK(root) /\ root \in Root /\ root.st.nextId \in Nat /\ MaxExamples \in Nat
  BY InputAssumption DEF Inv, RootOK, Root, MinasState
<1> SUFFICES /\ RootOK(root') /\ RoundKept
             /\ inFlight' \subseteq 0..(MaxExamples - 1) /\ open' \in BOOLEAN
  BY DEF Inv, TypeOK, RootOK
<1>2. inFlight \subseteq 0..(MaxExamples - 1) /\ open \in BOOLEAN
  BY DEF Inv, TypeOK
<1>3. CASE ClusterLine
  <2>1. PICK label \in LineLabels, isSleep \in StackSleep :
          root' = Lined(root, label, isSleep)
    BY <1>3 DEF ClusterLine
  <2>2. RootOK(root') /\ root'.round = root.round
    BY <1>1, <2>1, LinedFacts
  <2> QED
    BY <1>2, <1>3, <2>2 DEF ClusterLine, RoundKept
<1>4. CASE ExampleLine
  <2>1. RootOK(root') /\ root'.round = root.round
    BY <1>1, <1>4, NumberedFacts DEF ExampleLine
  <2>2. root.st.nextId \in 0..(MaxExamples - 1)
    BY <1>1, <1>4 DEF ExampleLine
  <2> QED
    BY <1>2, <1>4, <2>1, <2>2 DEF ExampleLine, RoundKept
<1>5. CASE EndOfInput
  BY <1>1, <1>2, <1>5 DEF EndOfInput, RoundKept
<1>6. CASE \E id \in inFlight : Known(id) \/ Unknown(id)
  <2>1. PICK id \in inFlight : Known(id) \/ Unknown(id)
    BY <1>6
  <2>2. id \in Nat
    BY <1>1, <1>2, <2>1
  <2>3. inFlight' \subseteq inFlight /\ open' = open
    BY <2>1 DEF Known, Unknown, Comes
  <2>4. CASE Known(id)
    <3>1. RootOK(root') /\ root'.round = root.round
      BY <1>1, <2>2, <2>4, ObservedFacts DEF Known
    <3> QED
      BY <1>2, <2>3, <3>1 DEF RoundKept
  <2>5. CASE Unknown(id)
    <3>1. RootOK(root') /\ RoundKept
      BY <1>1, <2>2, <2>5, HandledFacts DEF Unknown, RoundKept
    <3> QED
      BY <1>2, <2>3, <3>1
  <2> QED
    BY <2>1, <2>4, <2>5
<1>7. CASE EndMarker
  <2>1. PICK id \in MarkerIds(root) : root' = Observed(root, id)
    BY <1>7 DEF EndMarker
  <2>2. RootOK(root') /\ root'.round = root.round
    BY <1>1, <2>1, MarkerIdsType, ObservedFacts
  <2> QED
    BY <1>2, <1>7, <2>2 DEF EndMarker, RoundKept
<1>8. CASE UNCHANGED vars
  BY <1>1, <1>2, <1>8 DEF vars, RoundKept
<1> QED
  BY <1>3, <1>4, <1>5, <1>6, <1>7, <1>8 DEF Next

\* The invariant holds in every reachable state.
THEOREM Invariance == Spec => []Inv
<1>1. Init => Inv
  BY InitInv
<1>2. Inv /\ [Next]_vars => Inv'
  BY NextInv
<1> QED
  BY <1>1, <1>2, PTL DEF Spec

\* The state of rank 0 keeps its types.
THEOREM TypeCorrect == Spec => []TypeOK
<1>1. Inv => TypeOK
  BY DEF Inv
<1> QED
  BY <1>1, Invariance, PTL

\* The detector never leaves on assert(nearest != NULL), whatever the order in
\* which the unknowns reach it.
THEOREM EveryDetectionFinds == Spec => []DetectionFindsCluster
<1>1. Inv => DetectionFindsCluster
  BY DEF Inv, RootOK, DetectionFindsCluster
<1> QED
  BY <1>1, Invariance, PTL

\* The buffer of rank 0 is below its limit after every unknown.
THEOREM AlwaysRoom == Spec => []RoomAfterHandling
<1>1. Inv => RoomAfterHandling
  BY DEF Inv, RootOK, RoomAfterHandling
<1> QED
  BY <1>1, Invariance, PTL

\* A novelty detection leaves no more unknowns than K - 1 clusters too small to
\* be kept can have, whatever the order in which the unknowns came.
THEOREM DetectionLeavesFew == Spec => LeftoverBounded
<1>1. ASSUME Inv, [Next]_vars
      PROVE  [root'.round # root.round =>
                Cardinality(root'.st.unknowns) <= (K - 1) * (MinEx - 1)]_vars
  BY <1>1, NextInv DEF RoundKept
<1> QED
  BY <1>1, Invariance, PTL DEF Spec, LeftoverBounded
=============================================================================
