------------------------------- MODULE Minas -------------------------------
(***************************************************************************)
(* The MINAS state and the operations of src/src/base.c on it: identify,   *)
(* minasHandleSleep, restoreSleep, noveltyDetection, minasHandleUnknown    *)
(* and addCluster.  A state is a record with the fields of struct          *)
(* MinasState, so that the serial program and the detector of the MPI      *)
(* program apply the same operators to the state each of them owns.        *)
(*                                                                         *)
(* Geometry is abstracted: which cluster is nearest, whether an example is *)
(* inside its radius and how k-means splits the unknowns are choices, cut  *)
(* down to what nearestClusterVal and clustering guarantee for every input.*)
(* An operation with such a choice returns the set of its outcomes.        *)
(***************************************************************************)
EXTENDS Integers, Sequences, FiniteSets

CONSTANTS
  K,                    \* params.k: clusters per k-means run
  MinEx,                \* params.minExamplesPerCluster
  ThresholdForgetting,  \* params.thresholdForgettingPast
  Reserved,             \* labels printed as a letter or '-', all below 128
  Unk,                  \* MINAS_UNK_LABEL, the label '-'
  UIntMod,              \* 2^32: Cluster.latest_match_id is an unsigned int
  Tracked               \* bound: example numbers that "touched" tells apart

ASSUME ParamsAssumption ==
  /\ K \in Nat \ {0}
  /\ MinEx \in Nat \ {0}
  /\ ThresholdForgetting \in Nat
  /\ UIntMod \in Nat \ {0}
  /\ Tracked \in 0..UIntMod

ASSUME LabelsAssumption ==
  /\ Reserved \subseteq 1..127
  /\ Unk \in Reserved

\* Both programs derive the two limits of the unknowns buffer from k.
Trigger == MinEx * K
UnknownsMax == 2 * Trigger

-----------------------------------------------------------------------------

\* Two fields are bookkeeping.  "novel": the cluster got a label of its own in a
\* novelty detection, rather than from its line or from the cluster it extends.
\* "touched": the example at which "latest" was last written, or Tracked: when
\* its number is no less, and for a new cluster of a detection, not written yet.
Cluster == [id : Nat, label : Nat, latest : Nat, isSleep : BOOLEAN,
            novel : BOOLEAN, touched : 0..Tracked]

\* Examples enter the buffer under distinct ids: the buffer is their set.
MinasState == [model : Seq(Cluster), unknowns : SUBSET Nat,
               lastNDCheck : Nat, currId : Nat, sleepCounter : Nat,
               nextLabel : Nat, nextId : Nat]

EmptyState == [model |-> <<>>, unknowns |-> {}, lastNDCheck |-> 0,
               currId |-> 0, sleepCounter |-> 0, nextLabel |-> 0,
               nextId |-> 0]

\* Slip: latest_match_id as a signed int.
SignedInt(n) ==
  LET low == n % UIntMod
  IN IF low >= UIntMod \div 2 THEN low - UIntMod ELSE low

UInt(n) == n % UIntMod

TouchedAt(n) == IF n < Tracked THEN n ELSE Tracked

\* a - b > t in unsigned long arithmetic: a negative difference wraps around
\* to a number larger than any threshold.
UDiffExceeds(a, b, t) == a < b \/ a - b > t

Awake(model) == {i \in DOMAIN model : ~ model[i].isSleep}
Asleep(model) == {i \in DOMAIN model : model[i].isSleep}
LabelsOf(model) == {model[i].label : i \in DOMAIN model}

-----------------------------------------------------------------------------
\* Slip: nextLabel is the label just read, not the one after it.
AddClusterSameLabel(s, c) ==
  [s EXCEPT !.model = Append(@, c),
            !.nextLabel = IF c.label \notin Reserved \ {Unk} /\ @ <= c.label
                            THEN c.label ELSE @]

\* A cluster read from the input; later novelties get labels above its label
\* unless that is a letter ('-' is no letter for isalpha).
AddCluster(s, c) ==
  [s EXCEPT
     !.model = Append(@, c),
     !.nextLabel = IF c.label \notin Reserved \ {Unk} /\ @ <= c.label
                     THEN c.label + 1 ELSE @]

RestoreSleep(s) ==
  IF s.sleepCounter = 0 THEN s
  ELSE [s EXCEPT
          !.model = [i \in DOMAIN s.model |->
                       [s.model[i] EXCEPT !.latest = UInt(s.currId),
                                          !.touched = TouchedAt(s.currId),
                                          !.isSleep = FALSE]],
          !.sleepCounter = 0]

\* Slip: skipSleep is ignored.
NearestAny(model) == DOMAIN model

\* nearestClusterVal with skipSleep: some awake cluster, or NULL (0).  minDist
\* is set by cluster 0 only; when that sleeps it is compared uninitialised, and
\* the search then finds the nearest awake cluster or nothing at all.
NearestAwake(model) ==
  Awake(model) \cup (IF 1 \in Awake(model) THEN {} ELSE {0})

\* The example is compared with cluster i: its state, and the example's label.
Answer(s, i, id, isMatch) ==
  [state |-> [s EXCEPT !.model[i].latest = UInt(id),
                       !.model[i].touched = TouchedAt(id)],
   label |-> IF isMatch THEN s.model[i].label ELSE Unk]

\* Outcomes of identify: with nothing found it wakes the model and looks again.
Identify(s, id) ==
  {Answer(s, i, id, isMatch) :
     i \in NearestAwake(s.model) \ {0}, isMatch \in BOOLEAN}
  \cup
  (IF 0 \in NearestAwake(s.model)
     THEN {Answer(RestoreSleep(s), i, id, isMatch) :
             i \in DOMAIN s.model, isMatch \in BOOLEAN}
     ELSE {})

-----------------------------------------------------------------------------
\* Slip: sleeping clusters are not passed over, and counted once more.
StaleOrAsleep(s) ==
  {i \in DOMAIN s.model :
     UDiffExceeds(s.currId, s.model[i].latest, ThresholdForgetting)}

\* Awake clusters not matched for longer than the threshold.
Stale(s) == {i \in Awake(s.model) :
               UDiffExceeds(s.currId, s.model[i].latest, ThresholdForgetting)}

\* Slip: the loop never stops early.
PutAllToSleep(s) == Stale(s)

\* The loop stops once 2k clusters sleep, but looks at one awake cluster
\* before it first compares.
PutToSleep(s) ==
  IF s.sleepCounter < 2 * K
    THEN {i \in Stale(s) :
            Cardinality({j \in Stale(s) : j < i}) < 2 * K - s.sleepCounter}
    ELSE {i \in Stale(s) : \A j \in Awake(s.model) : i <= j}

\* lastForgetCheck stays 0 for ever, so currId itself is the idDiff of the code.
HandleSleep(s) ==
  IF \/ s.currId = 0
     \/ Len(s.model) - s.sleepCounter <= 2 * K
     \/ s.currId < ThresholdForgetting
    THEN s
    ELSE [s EXCEPT
            !.model = [i \in DOMAIN s.model |->
                         IF i \in PutToSleep(s)
                           THEN [s.model[i] EXCEPT !.isSleep = TRUE]
                           ELSE s.model[i]],
            !.sleepCounter = @ + Cardinality(PutToSleep(s))]

-----------------------------------------------------------------------------
\* The values nextLabel takes while n novelties are labelled, from l on.
LabelRuns(l, n) ==
  {run \in [0..n -> l..(l + n + Cardinality(Reserved))] :
     /\ run[0] = l
     /\ \A j \in 1..n :
          /\ run[j - 1] < run[j]
          /\ run[j] \notin Reserved
          /\ \A c \in (run[j - 1] + 1)..(run[j] - 1) : c \in Reserved}

\* k-means assigns every unknown to one of K clusters; those with enough
\* members are kept.
Members(assign, k) == {x \in DOMAIN assign : assign[x] = k}

\* Slip: a cluster with exactly MinEx members is dropped.
KeptAbove(assign) == {k \in 1..K : Cardinality(Members(assign, k)) > MinEx}

Kept(assign) == {k \in 1..K : Cardinality(Members(assign, k)) >= MinEx}

\* Slip: distanceMax is 0, so the members of a new cluster stay in the buffer.
ClusteringNoRadius(unknowns) ==
  {[nNew |-> Cardinality(Kept(assign)), members |-> {}]
     : assign \in [unknowns -> 1..K]}

Clustering(unknowns) ==
  {[nNew |-> Cardinality(Kept(assign)),
    members |-> {x \in unknowns : assign[x] \in Kept(assign)}]
     : assign \in [unknowns -> 1..K]}

\* The labels of m kept clusters of which "novelties" get a label of their own,
\* the next of "run".  The others extend a cluster that precedes them in the
\* model, those of this very round included.
Labellings(model, m, novelties, run) ==
  {labels \in [1..m -> LabelsOf(model) \cup {run[j] : j \in DOMAIN run}] :
     \A i \in 1..m :
       IF i \in novelties
         THEN labels[i] = run[Cardinality({j \in novelties : j < i})]
         ELSE labels[i] \in LabelsOf(model) \cup {labels[j] : j \in 1..(i - 1)}}

\* Slip: the ids that k-means handed out are kept.
BornAsClustered(model, labels, novelties) ==
  [i \in DOMAIN labels |->
     [id |-> Len(model) + i, label |-> labels[i], latest |-> 0,
      isSleep |-> FALSE, novel |-> i \in novelties, touched |-> Tracked]]

\* A new cluster keeps the latest_match_id 0 of CLUSTER_EMPTY.
Born(model, labels, novelties) ==
  [i \in DOMAIN labels |->
     [id |-> Len(model) + i - 1, label |-> labels[i], latest |-> 0,
      isSleep |-> FALSE, novel |-> i \in novelties, touched |-> Tracked]]

\* The model and nextLabel after a detection with these choices.
Grown(s, split, novelties, run) ==
  {[state |-> [s EXCEPT !.model = @ \o Born(s.model, labels, novelties),
                        !.nextLabel = run[Cardinality(novelties)]],
    nNew |-> split.nNew,
    members |-> split.members]
     : labels \in Labellings(s.model, split.nNew, novelties, run)}

\* Outcomes of noveltyDetection.
DetectionsOf(s, split) ==
  UNION {Grown(s, split, novelties, run)
           : novelties \in SUBSET (1..split.nNew),
             run \in LabelRuns(s.nextLabel, split.nNew)}
NoveltyDetection(s) ==
  UNION {DetectionsOf(s, split) : split \in Clustering(s.unknowns)}

Full(s) == Cardinality(s.unknowns) >= UnknownsMax

\* The buffer is still full: the first unknown goes, and those before the last
\* novelty detection.
DropWhenFull(s) ==
  IF ~ Full(s) THEN {s}
  ELSE {[s EXCEPT !.unknowns = {x \in @ \ {first} : x >= s.lastNDCheck}]
          : first \in s.unknowns}

\* Slip: only the limit, and one too late, sets off a novelty detection.
RoundDueLate(s) == Cardinality(s.unknowns) > UnknownsMax

\* A novelty detection is due after an unknown was appended.
RoundDue(s) ==
  \/ Cardinality(s.unknowns) = UnknownsMax
  \/ /\ Cardinality(s.unknowns) >= Trigger
     /\ UDiffExceeds(s.currId, s.lastNDCheck, Trigger)

\* Slip: unknowns older than this novelty detection are discarded, not those
\* older than the previous one.
CollectedBeforeNow(s, consumed) ==
  {x \in s.unknowns \ consumed : x < s.currId}

\* Slip: no garbage collection.
CollectedNever(s, consumed) == {}

\* Unconsumed unknowns older than the previous novelty detection.
Collected(s, consumed) == {x \in s.unknowns \ consumed : x < s.lastNDCheck}

Removed(s, consumed) ==
  [state |-> [s EXCEPT !.unknowns = @ \ (consumed \cup Collected(s, consumed)),
                       !.lastNDCheck = s.currId],
   consumed |-> consumed,
   collected |-> Collected(s, consumed)]

\* The clean up after a novelty detection.  A member of a new cluster is nearest
\* to it and within its distanceMax, so it is consumed; other unknowns may be.
RemoveResolved(nd) ==
  {Removed(nd.state, nd.members \cup more)
     : more \in SUBSET (nd.state.unknowns \ nd.members)}

\* Outcomes of minasHandleUnknown: "failed" is the exit of assert(nearest !=
\* NULL) when a novelty detection brought no cluster; "round", "consumed",
\* "collected" and "full" (the buffer still was at its limit after all that, the
\* negation of the commented-out assertion) say what happened to the buffer.
NoRound(s, full) ==
  [state |-> s, nNew |-> 0, round |-> FALSE, failed |-> FALSE,
   consumed |-> {}, collected |-> {}, full |-> full]

Exit(s) == [NoRound(s, FALSE) EXCEPT !.round = TRUE, !.failed = TRUE]

Cleaned(nd, c) ==
  {[state |-> s, nNew |-> nd.nNew, round |-> TRUE, failed |-> FALSE,
    consumed |-> c.consumed, collected |-> c.collected, full |-> Full(c.state)]
     : s \in DropWhenFull(c.state)}

AfterDetection(nd) ==
  IF nd.nNew = 0 THEN {Exit(nd.state)}
  ELSE UNION {Cleaned(nd, c) : c \in RemoveResolved(nd)}

HandleUnknown(s, id) ==
  LET t == [s EXCEPT !.currId = id, !.unknowns = @ \cup {id}]
  IN IF ~ RoundDue(t)
       THEN {NoRound(u, Full(t)) : u \in DropWhenFull(t)}
       ELSE UNION {AfterDetection(nd) : nd \in NoveltyDetection(RestoreSleep(t))}
=============================================================================
