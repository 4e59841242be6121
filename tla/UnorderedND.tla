---------------------------- MODULE UnorderedND ----------------------------
(***************************************************************************)
(* Novelty detection on rank 0 with the rest of the MPI program reduced to *)
(* what it does to the order of the examples: each one comes back from the *)
(* classifiers once, at any time, answered or unknown.  ThreadedMPI is     *)
(* shown to implement this specification.                                  *)
(***************************************************************************)
EXTENDS MainRank

VARIABLES
  root,      \* the state of rank 0
  inFlight,  \* ids given out that have not come back
  open       \* the sampler still reads

vars == <<root, inFlight, open>>

TypeOK ==
  /\ root \in Root
  /\ inFlight \subseteq 0..(MaxExamples - 1)
  /\ open \in BOOLEAN

Init ==
  /\ root = EmptyRoot
  /\ inFlight = {}
  /\ open = TRUE

\* Cluster lines come before the examples: the initial model.
ClusterLine ==
  /\ open
  /\ root.st.nextId = 0
  /\ Len(root.st.model) < MaxLines
  /\ \E label \in LineLabels, isSleep \in StackSleep :
       root' = Lined(root, label, isSleep)
  /\ UNCHANGED <<inFlight, open>>

ExampleLine ==
  /\ open
  /\ root.st.nextId < MaxExamples
  /\ inFlight' = inFlight \cup {root.st.nextId}
  /\ root' = Numbered(root)
  /\ UNCHANGED open

EndOfInput ==
  /\ open
  /\ open' = FALSE
  /\ UNCHANGED <<root, inFlight>>

\* An example comes back, labelled or as an unknown.
Comes(id) ==
  /\ ~ root.failed
  /\ inFlight' = inFlight \ {id}
  /\ UNCHANGED open

Known(id) ==
  /\ Comes(id)
  /\ root' = Observed(root, id)

Unknown(id) ==
  /\ Comes(id)
  /\ root' \in Handled(root, id)

\* An end marker, which may overtake examples of other classifiers.
EndMarker ==
  /\ ~ open
  /\ ~ root.failed
  /\ \E id \in MarkerIds(root) : root' = Observed(root, id)
  /\ UNCHANGED <<inFlight, open>>

\* Classifiers answer only once the model has K clusters.
Next ==
  \/ ClusterLine
  \/ ExampleLine
  \/ EndOfInput
  \/ /\ Len(root.st.model) >= K
     /\ \E id \in inFlight : Known(id) \/ Unknown(id)
  \/ EndMarker

Spec == Init /\ [][Next]_vars

-----------------------------------------------------------------------------
\* Every novelty detection brings a cluster, in whatever order the unknowns
\* arrive: the detector never leaves on assert(nearest != NULL).
DetectionFindsCluster == ~ root.failed

\* The commented-out assertion on unknownsSize holds out of order as well.
RoomAfterHandling == ~ root.full

\* Of a novelty detection only unknowns that no kept cluster has are left,
\* whatever the order in which they came (clean-up in minasHandleUnknown).
LeftoverBounded ==
  [][root'.round # root.round =>
       Cardinality(root'.st.unknowns) <= (K - 1) * (MinEx - 1)]_vars
=============================================================================
