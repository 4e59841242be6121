---------------------------- MODULE Minas_proofs ----------------------------
(***************************************************************************)
(* Facts about the operators of Minas that every program built from them   *)
(* relies on, and about those of MainRank, what the two threads of rank 0  *)
(* do to its state, that the proofs about UnorderedND and ThreadedMPI      *)
(* share.                                                                  *)
(***************************************************************************)
EXTENDS MainRank, FiniteSetTheorems, FunctionTheorems, SequenceTheorems,
        WellFoundedInduction, TLAPS

\* The two limits of the unknowns buffer are positive.
LEMMA Limits ==
  /\ Trigger \in Nat \ {0}
  /\ UnknownsMax \in Nat
  /\ UnknownsMax = 2 * Trigger
<1>1. MinEx * K \in Nat /\ MinEx * K > 0
  BY ParamsAssumption
<1> QED
  BY <1>1 DEF Trigger, UnknownsMax

\* A k-means run keeps finitely many clusters, at most K.
LEMMA KeptFinite ==
  ASSUME NEW assign
  PROVE  /\ Kept(assign) \subseteq 1..K
         /\ IsFiniteSet(Kept(assign))
         /\ Cardinality(Kept(assign)) \in Nat
<1>1. Kept(assign) \subseteq 1..K
  BY DEF Kept
<1>2. IsFiniteSet(1..K)
  BY FS_Interval, ParamsAssumption
<1>3. IsFiniteSet(Kept(assign))
  BY <1>1, <1>2, FS_Subset
<1> QED
  BY <1>1, <1>3, FS_CardinalityType

\* The pigeonhole principle: clusters with fewer than MinEx members have no more
\* than MinEx - 1 unknowns each.  An unknown is determined by its cluster and a
\* place below MinEx in it.
LEMMA FewInSmallClusters ==
  ASSUME NEW U, IsFiniteSet(U), NEW C, IsFiniteSet(C), NEW assign \in [U -> C],
         \A k \in C : ~ (Cardinality(Members(assign, k)) >= MinEx)
  PROVE  Cardinality(U) <= Cardinality(C) * (MinEx - 1)
<1> DEFINE Places == 1..(MinEx - 1)
           place(k) == CHOOSE f : f \in Injection(Members(assign, k), Places)
           code == [x \in U |-> <<assign[x], place(assign[x])[x]>>]
<1>1. \A k \in C : /\ Members(assign, k) \subseteq U
                    /\ place(k) \in Injection(Members(assign, k), Places)
  <2> SUFFICES ASSUME NEW k \in C
               PROVE /\ Members(assign, k) \subseteq U
                     /\ Injection(Members(assign, k), Places) # {}
    BY Zenon
  <2>1. Members(assign, k) \subseteq U
    BY DEF Members
  <2>2. IsFiniteSet(Members(assign, k))
    BY <2>1, FS_Subset
  <2>3. Cardinality(Members(assign, k)) \in Nat
    BY <2>2, FS_CardinalityType
  <2>4. ~ (Cardinality(Members(assign, k)) >= MinEx)
    OBVIOUS
  <2>5. Cardinality(Members(assign, k)) <= MinEx - 1
    BY <2>3, <2>4, ParamsAssumption
  <2>6. ExistsBijection(Members(assign, k), 1..Cardinality(Members(assign, k)))
    BY <2>2, FS_CardinalityType, Fun_ExistsBijSymmetric
  <2>7. PICK f \in Bijection(Members(assign, k), 1..Cardinality(Members(assign, k))) : TRUE
    BY <2>6 DEF ExistsBijection
  <2>8. 1..Cardinality(Members(assign, k)) \subseteq Places
    BY <2>3, <2>5, ParamsAssumption
  <2>9. f \in Injection(Members(assign, k), Places)
    BY <2>7, <2>8 DEF Bijection, Injection, IsInjective
  <2> QED
    BY <2>1, <2>9
<1>2. \A x \in U : /\ assign[x] \in C
                   /\ x \in Members(assign, assign[x])
                   /\ place(assign[x])[x] \in Places
  <2> TAKE x \in U
  <2>1. assign[x] \in C /\ x \in Members(assign, assign[x])
    BY DEF Members
  <2>2. place(assign[x]) \in [Members(assign, assign[x]) -> Places]
    BY <1>1, <2>1 DEF Injection
  <2> QED
    BY <2>1, <2>2
<1>3. code \in [U -> C \X Places]
  BY <1>2
<1>4. code \in Injection(U, C \X Places)
  <2> SUFFICES ASSUME NEW x \in U, NEW y \in U, code[x] = code[y]
               PROVE  x = y
    BY <1>3 DEF Injection, IsInjective
  <2> HIDE DEF place
  <2>1. assign[x] = assign[y] /\ place(assign[x])[x] = place(assign[x])[y]
    <3>1. <<assign[x], place(assign[x])[x]>> = <<assign[y], place(assign[y])[y]>>
      OBVIOUS
    <3>2. assign[x] = assign[y] /\ place(assign[x])[x] = place(assign[y])[y]
      BY <3>1
    <3> QED
      BY <3>2
  <2>2. place(assign[x]) \in Injection(Members(assign, assign[x]), Places)
    BY <1>1, <1>2
  <2>3. x \in Members(assign, assign[x]) /\ y \in Members(assign, assign[x])
    BY <1>2, <2>1
  <2> HIDE DEF code
  <2> QED
    BY <2>1, <2>2, <2>3 DEF Injection, IsInjective
<1>5. /\ IsFiniteSet(C \X Places)
      /\ Cardinality(C \X Places) = Cardinality(C) * (MinEx - 1)
  <2>2. IsFiniteSet(Places) /\ Cardinality(Places) = MinEx - 1
    <3>1. 1 \in Int /\ MinEx - 1 \in Int
      BY ParamsAssumption
    <3>2. /\ IsFiniteSet(Places)
          /\ Cardinality(Places) = IF 1 > MinEx - 1 THEN 0 ELSE (MinEx - 1) - 1 + 1
      BY <3>1, FS_Interval
    <3> QED
      BY <3>2, ParamsAssumption
  <2> HIDE DEF Places
  <2>3. Cardinality(C \X Places) = Cardinality(C) * Cardinality(Places)
    BY <2>2, FS_Product
  <2> QED
    BY <2>2, <2>3, FS_Product
<1> HIDE DEF code, Places
<1> QED
  BY <1>4, <1>5, FS_Injection

\* Hence assert(nearest != NULL): more than K * (MinEx - 1) unknowns cannot be
\* spread over K clusters so that none of them is kept.
LEMMA SomeClusterKept ==
  ASSUME NEW U, IsFiniteSet(U), NEW assign \in [U -> 1..K],
         Cardinality(U) > K * (MinEx - 1)
  PROVE  Kept(assign) # {}
<1> SUFFICES ASSUME Kept(assign) = {} PROVE FALSE
  OBVIOUS
<1>1. IsFiniteSet(1..K) /\ Cardinality(1..K) = K
  BY FS_Interval, ParamsAssumption
<1>2. \A k \in 1..K : ~ (Cardinality(Members(assign, k)) >= MinEx)
  BY DEF Kept
<1>3. Cardinality(U) <= K * (MinEx - 1)
  BY <1>1, <1>2, FewInSmallClusters
<1>4. Cardinality(U) \in Nat /\ K * (MinEx - 1) \in Int
  BY FS_CardinalityType, ParamsAssumption
<1> QED
  BY <1>3, <1>4

\* And when one is kept, the unknowns it leaves are in the K - 1 others.
LEMMA FewUnexplained ==
  ASSUME NEW U, IsFiniteSet(U), NEW assign \in [U -> 1..K], Kept(assign) # {}
  PROVE  Cardinality({x \in U : assign[x] \notin Kept(assign)}) <= (K - 1) * (MinEx - 1)
<1> DEFINE rest == {x \in U : assign[x] \notin Kept(assign)}
           restOf == [x \in rest |-> assign[x]]
<1>1. PICK kept \in Kept(assign) : kept \in 1..K
  BY DEF Kept
<1> DEFINE C == (1..K) \ {kept}
<1>2. IsFiniteSet(C) /\ Cardinality(C) = K - 1
  <2>1. IsFiniteSet(1..K) /\ Cardinality(1..K) = K
    BY FS_Interval, ParamsAssumption
  <2> QED
    BY <1>1, <2>1, FS_RemoveElement
<1>3. IsFiniteSet(rest)
  BY FS_Subset
<1>4. restOf \in [rest -> C]
  BY <1>1
<1>5. ASSUME NEW k \in C
      PROVE  ~ (Cardinality(Members(restOf, k)) >= MinEx)
  <2>1. CASE k \in Kept(assign)
    <3>1. Members(restOf, k) = {}
      BY <2>1 DEF Members
    <3> QED
      BY <3>1, FS_EmptySet, ParamsAssumption
  <2>2. CASE k \notin Kept(assign)
    <3>1. Members(restOf, k) = Members(assign, k)
      BY <2>2 DEF Members
    <3>2. ~ (Cardinality(Members(assign, k)) >= MinEx)
      BY <2>2 DEF Kept
    <3> QED
      BY <3>1, <3>2
  <2> QED
    BY <2>1, <2>2
<1>6. Cardinality(rest) <= Cardinality(C) * (MinEx - 1)
  <2> HIDE DEF rest, restOf, C
  <2> QED
    BY <1>2, <1>3, <1>4, <1>5, FewInSmallClusters
<1> QED
  BY <1>2, <1>6

-----------------------------------------------------------------------------
\* A function on 1..n is a sequence.
LEMMA FunctionIsSeq ==
  ASSUME NEW S, NEW n \in Nat, NEW f \in [1..n -> S]
  PROVE  f \in Seq(S) /\ Len(f) = n
OBVIOUS

\* A step that leaves the buffer and the counters of examples alone.
SameBuffer(s, t) ==
  /\ t.unknowns = s.unknowns
  /\ t.lastNDCheck = s.lastNDCheck
  /\ t.currId = s.currId
  /\ t.nextId = s.nextId
  /\ t.nextLabel = s.nextLabel
  /\ Len(t.model) = Len(s.model)

LEMMA UIntType ==
  ASSUME NEW n \in Nat
  PROVE  UInt(n) \in Nat
BY ParamsAssumption DEF UInt

\* "touched" is the number of the example that "latest" keeps, or tells nothing.
LEMMA TouchedFacts ==
  ASSUME NEW n \in Nat
  PROVE  /\ TouchedAt(n) \in 0..Tracked
         /\ Tracked \in 0..Tracked
         /\ TouchedAt(n) < Tracked => UInt(n) = TouchedAt(n)
BY ParamsAssumption DEF TouchedAt, UInt

\* Waking every cluster keeps the types and the buffer.
LEMMA RestoreSleepType ==
  ASSUME NEW s \in MinasState
  PROVE  RestoreSleep(s) \in MinasState /\ SameBuffer(s, RestoreSleep(s))
<1> DEFINE woken == [i \in DOMAIN s.model |->
                       [s.model[i] EXCEPT !.latest = UInt(s.currId),
                                          !.touched = TouchedAt(s.currId),
                                          !.isSleep = FALSE]]
<1>1. /\ s.model \in Seq(Cluster) /\ Len(s.model) \in Nat
      /\ DOMAIN s.model = 1..Len(s.model) /\ s.currId \in Nat
  BY DEF MinasState
<1>2. \A i \in 1..Len(s.model) : s.model[i] \in Cluster
  BY <1>1
<1>3. UInt(s.currId) \in Nat /\ TouchedAt(s.currId) \in 0..Tracked
  BY <1>1, UIntType, TouchedFacts
<1>4. \A i \in 1..Len(s.model) : woken[i] \in Cluster
  BY <1>1, <1>2, <1>3 DEF Cluster
<1>5. woken \in [1..Len(s.model) -> Cluster]
  BY <1>1, <1>4
<1> HIDE DEF woken
<1>6. woken \in Seq(Cluster) /\ Len(woken) = Len(s.model)
  BY <1>1, <1>5, FunctionIsSeq
<1>7. [s EXCEPT !.model = woken, !.sleepCounter = 0] \in MinasState
  BY <1>6 DEF MinasState
<1>8. SameBuffer(s, [s EXCEPT !.model = woken, !.sleepCounter = 0])
  BY <1>6 DEF SameBuffer, MinasState
<1>9. SameBuffer(s, s)
  BY DEF SameBuffer
<1> QED
  BY <1>7, <1>8, <1>9 DEF RestoreSleep, woken

\* Sleeping keeps the types and the buffer.
LEMMA PutToSleepFinite ==
  ASSUME NEW s \in MinasState
  PROVE  /\ PutToSleep(s) \subseteq Awake(s.model)
         /\ Awake(s.model) \subseteq 1..Len(s.model)
         /\ IsFiniteSet(PutToSleep(s))
         /\ Cardinality(PutToSleep(s)) \in Nat
<1>1. Len(s.model) \in Nat /\ DOMAIN s.model = 1..Len(s.model)
  BY DEF MinasState
<1>2. PutToSleep(s) \subseteq Awake(s.model) /\ Awake(s.model) \subseteq 1..Len(s.model)
  BY <1>1 DEF PutToSleep, Stale, Awake
<1>3. IsFiniteSet(1..Len(s.model))
  BY <1>1, FS_Interval
<1>4. IsFiniteSet(PutToSleep(s))
  BY <1>2, <1>3, FS_Subset
<1> QED
  BY <1>2, <1>4, FS_CardinalityType

LEMMA HandleSleepType ==
  ASSUME NEW s \in MinasState
  PROVE  HandleSleep(s) \in MinasState /\ SameBuffer(s, HandleSleep(s))
<1> DEFINE slept == [i \in DOMAIN s.model |->
                       IF i \in PutToSleep(s)
                         THEN [s.model[i] EXCEPT !.isSleep = TRUE]
                         ELSE s.model[i]]
           n == s.sleepCounter + Cardinality(PutToSleep(s))
<1>1. /\ s.model \in Seq(Cluster) /\ Len(s.model) \in Nat
      /\ DOMAIN s.model = 1..Len(s.model)
  BY DEF MinasState
<1>2. \A i \in 1..Len(s.model) : s.model[i] \in Cluster
  BY <1>1
<1>3. \A i \in 1..Len(s.model) : slept[i] \in Cluster
  BY <1>1, <1>2 DEF Cluster
<1>4. slept \in [1..Len(s.model) -> Cluster]
  BY <1>1, <1>3
<1>5. slept \in Seq(Cluster) /\ Len(slept) = Len(s.model)
  BY <1>1, <1>4, FunctionIsSeq
<1>6. n \in Nat
  BY PutToSleepFinite DEF MinasState
<1> HIDE DEF slept, n
<1>7. [s EXCEPT !.model = slept, !.sleepCounter = n] \in MinasState
  BY <1>5, <1>6 DEF MinasState
<1>8. SameBuffer(s, [s EXCEPT !.model = slept, !.sleepCounter = n])
  BY <1>5 DEF SameBuffer, MinasState
<1>9. SameBuffer(s, s)
  BY DEF SameBuffer
<1> QED
  BY <1>7, <1>8, <1>9 DEF HandleSleep, slept, n

\* identify keeps the types and the buffer.
LEMMA AnswerType ==
  ASSUME NEW s \in MinasState, NEW i \in DOMAIN s.model, NEW id \in Nat,
         NEW isMatch \in BOOLEAN
  PROVE  /\ Answer(s, i, id, isMatch).state \in MinasState
         /\ SameBuffer(s, Answer(s, i, id, isMatch).state)
<1> DEFINE compared == [s.model EXCEPT ![i] = [@ EXCEPT !.latest = UInt(id),
                                                       !.touched = TouchedAt(id)]]
<1>1. /\ s.model \in Seq(Cluster) /\ Len(s.model) \in Nat
      /\ i \in 1..Len(s.model)
  BY DEF MinasState
<1>2. s.model[i] \in Cluster
  BY <1>1
<1>3. [s.model[i] EXCEPT !.latest = UInt(id), !.touched = TouchedAt(id)] \in Cluster
  BY <1>2, UIntType, TouchedFacts DEF Cluster
<1>4. compared \in Seq(Cluster) /\ Len(compared) = Len(s.model)
  BY <1>1, <1>3, ExceptSeq
<1>5. Answer(s, i, id, isMatch).state = [s EXCEPT !.model = compared]
  BY DEF MinasState, Answer
<1> HIDE DEF compared
<1> QED
  BY <1>4, <1>5 DEF MinasState, SameBuffer

LEMMA IdentifyType ==
  ASSUME NEW s \in MinasState, NEW id \in Nat, NEW match \in Identify(s, id)
  PROVE  /\ match.state \in MinasState
         /\ SameBuffer(s, match.state)
<1>1. RestoreSleep(s) \in MinasState /\ SameBuffer(s, RestoreSleep(s))
  BY RestoreSleepType
<1>2. DOMAIN RestoreSleep(s).model = DOMAIN s.model
  BY <1>1 DEF MinasState, SameBuffer
<1>3. CASE \E i \in NearestAwake(s.model) \ {0}, isMatch \in BOOLEAN :
             match = Answer(s, i, id, isMatch)
  <2>1. NearestAwake(s.model) \ {0} \subseteq DOMAIN s.model
    BY DEF NearestAwake, Awake
  <2> QED
    BY <1>3, <2>1, AnswerType
<1>4. CASE \E i \in DOMAIN s.model, isMatch \in BOOLEAN :
             match = Answer(RestoreSleep(s), i, id, isMatch)
  <2>1. PICK i \in DOMAIN s.model, isMatch \in BOOLEAN :
          match = Answer(RestoreSleep(s), i, id, isMatch)
    BY <1>4
  <2>2. /\ match.state \in MinasState
        /\ SameBuffer(RestoreSleep(s), match.state)
    BY <2>1, <1>1, <1>2, AnswerType
  <2> QED
    BY <1>1, <2>2 DEF SameBuffer
<1> QED
  BY <1>3, <1>4 DEF Identify

\* addCluster leaves the buffer alone, too, but not nextLabel and the model.
SameUnknowns(s, t) ==
  /\ t.unknowns = s.unknowns
  /\ t.lastNDCheck = s.lastNDCheck
  /\ t.nextId = s.nextId

LEMMA AddClusterType ==
  ASSUME NEW s \in MinasState, NEW c \in Cluster
  PROVE  AddCluster(s, c) \in MinasState /\ SameUnknowns(s, AddCluster(s, c))
<1> DEFINE label == IF c.label \notin Reserved \ {Unk} /\ s.nextLabel <= c.label
                      THEN c.label + 1 ELSE s.nextLabel
           model == Append(s.model, c)
<1>1. label \in Nat
  BY DEF MinasState, Cluster
<1>2. model \in Seq(Cluster)
  BY DEF MinasState
<1>3. AddCluster(s, c) = [s EXCEPT !.model = model, !.nextLabel = label]
  BY DEF AddCluster
<1> HIDE DEF label, model
<1> QED
  BY <1>1, <1>2, <1>3 DEF MinasState, SameUnknowns

-----------------------------------------------------------------------------
\* What k-means promises to novelty detection: with unknowns enough it keeps a
\* cluster, and a kept cluster has MinEx members.
LEMMA ClusteringFacts ==
  ASSUME NEW U, IsFiniteSet(U), NEW split \in Clustering(U)
  PROVE  /\ split.nNew \in Nat
         /\ split.members \subseteq U
         /\ Cardinality(U) > K * (MinEx - 1) => split.nNew > 0
         /\ split.nNew > 0 => Cardinality(split.members) >= MinEx
         /\ split.nNew > 0 => Cardinality(U \ split.members) <= (K - 1) * (MinEx - 1)
<1>1. PICK assign \in [U -> 1..K] :
        /\ split.nNew = Cardinality(Kept(assign))
        /\ split.members = {x \in U : assign[x] \in Kept(assign)}
  BY DEF Clustering
<1>2. split.nNew \in Nat /\ split.members \subseteq U
  BY <1>1, KeptFinite
<1>3. split.nNew = 0 <=> Kept(assign) = {}
  BY <1>1, KeptFinite, FS_EmptySet
<1>4. Cardinality(U) > K * (MinEx - 1) => split.nNew > 0
  BY <1>2, <1>3, SomeClusterKept
<1>5. ASSUME split.nNew > 0
      PROVE  Cardinality(split.members) >= MinEx
  <2>1. PICK k \in Kept(assign) : TRUE
    BY <1>2, <1>3, <1>5
  <2>2. Members(assign, k) \subseteq split.members
    BY <1>1 DEF Members
  <2>3. IsFiniteSet(split.members) /\ Cardinality(split.members) \in Nat
    BY <1>2, FS_Subset, FS_CardinalityType
  <2>4. /\ IsFiniteSet(Members(assign, k))
        /\ Cardinality(Members(assign, k)) <= Cardinality(split.members)
    BY <2>2, <2>3, FS_Subset
  <2>5. Cardinality(Members(assign, k)) \in Nat
    BY <2>4, FS_CardinalityType
  <2>6. Cardinality(Members(assign, k)) >= MinEx
    BY DEF Kept
  <2> QED
    BY <2>3, <2>4, <2>5, <2>6, ParamsAssumption
<1>6. ASSUME split.nNew > 0
      PROVE  Cardinality(U \ split.members) <= (K - 1) * (MinEx - 1)
  <2>1. U \ split.members = {x \in U : assign[x] \notin Kept(assign)}
    BY <1>1
  <2> QED
    BY <1>3, <1>6, <2>1, FewUnexplained
<1> QED
  BY <1>2, <1>4, <1>5, <1>6

\* The new clusters are clusters, one per label.
LEMMA BornType ==
  ASSUME NEW model \in Seq(Cluster), NEW m \in Nat, NEW novelties,
         NEW labels \in [1..m -> Nat]
  PROVE  /\ Born(model, labels, novelties) \in Seq(Cluster)
         /\ Len(Born(model, labels, novelties)) = m
<1> DEFINE born == Born(model, labels, novelties)
<1>1. Len(model) \in Nat /\ DOMAIN labels = 1..m
  OBVIOUS
<1>2. born = [i \in 1..m |-> [id |-> Len(model) + i - 1, label |-> labels[i],
                              latest |-> 0, isSleep |-> FALSE,
                              novel |-> i \in novelties, touched |-> Tracked]]
  BY <1>1 DEF Born
<1>3. \A i \in 1..m : born[i] \in Cluster
  <2> TAKE i \in 1..m
  <2>1. Len(model) + i - 1 \in Nat /\ labels[i] \in Nat
    BY <1>1
  <2>2. (i \in novelties) \in BOOLEAN
    OBVIOUS
  <2> DEFINE novel == i \in novelties
  <2>3. born[i] = [id |-> Len(model) + i - 1, label |-> labels[i],
                   latest |-> 0, isSleep |-> FALSE, novel |-> novel,
                   touched |-> Tracked]
    BY <1>2
  <2>4. novel \in BOOLEAN /\ Tracked \in 0..Tracked
    BY <2>2, TouchedFacts
  <2> HIDE DEF novel, born
  <2> QED
    BY <2>1, <2>3, <2>4 DEF Cluster
<1>4. born \in [1..m -> Cluster]
  BY <1>2, <1>3
<1> HIDE DEF born
<1>5. born \in Seq(Cluster) /\ Len(born) = m
  BY <1>4, FunctionIsSeq
<1> QED
  BY <1>5 DEF born

LEMMA ReservedFinite == IsFiniteSet(Reserved)
<1>1. IsFiniteSet(1..127)
  <2>1. PICK n \in Int : n = 127
    OBVIOUS
  <2>2. IsFiniteSet(1..n)
    BY FS_Interval
  <2> QED
    BY <2>1, <2>2
<1> QED
  BY <1>1, LabelsAssumption, FS_Subset

\* The labels a novelty detection may give are numbers.
LEMMA LabellingsType ==
  ASSUME NEW model \in Seq(Cluster), NEW m \in Nat, NEW l \in Nat,
         NEW run \in LabelRuns(l, m), NEW novelties \in SUBSET (1..m),
         NEW labels \in Labellings(model, m, novelties, run)
  PROVE  /\ labels \in [1..m -> Nat]
         /\ run[Cardinality(novelties)] \in Nat
<1>1. Cardinality(Reserved) \in Nat
  BY ReservedFinite, FS_CardinalityType
<1>2. run \in [0..m -> Nat]
  BY <1>1 DEF LabelRuns
<1>3. LabelsOf(model) \subseteq Nat
  <2>1. \A i \in DOMAIN model : model[i] \in Cluster
    OBVIOUS
  <2> QED
    BY <2>1 DEF LabelsOf, Cluster
<1>4. {run[j] : j \in DOMAIN run} \subseteq Nat
  BY <1>2
<1>5. labels \in [1..m -> Nat]
  BY <1>3, <1>4 DEF Labellings
<1>6. Cardinality(novelties) \in 0..m
  <2>1. IsFiniteSet(1..m) /\ Cardinality(1..m) = m
    BY FS_Interval
  <2>2. /\ IsFiniteSet(novelties)
        /\ Cardinality(novelties) <= m
    BY <2>1, FS_Subset
  <2> QED
    BY <2>2, FS_CardinalityType
<1> QED
  BY <1>2, <1>5, <1>6

\* A novelty detection adds its clusters and leaves the buffer alone.
LEMMA GrownFacts ==
  ASSUME NEW s \in MinasState, NEW split, split.nNew \in Nat,
         NEW novelties \in SUBSET (1..split.nNew),
         NEW run \in LabelRuns(s.nextLabel, split.nNew),
         NEW nd \in Grown(s, split, novelties, run)
  PROVE  /\ nd.state \in MinasState
         /\ nd.state.unknowns = s.unknowns
         /\ nd.state.lastNDCheck = s.lastNDCheck
         /\ nd.state.currId = s.currId
         /\ nd.state.nextId = s.nextId
         /\ nd.nNew = split.nNew
         /\ nd.members = split.members
         /\ Len(nd.state.model) = Len(s.model) + nd.nNew
<1> DEFINE next == run[Cardinality(novelties)]
<1>1. PICK labels \in Labellings(s.model, split.nNew, novelties, run) :
        nd = [state |-> [s EXCEPT !.model = @ \o Born(s.model, labels, novelties),
                                  !.nextLabel = next],
              nNew |-> split.nNew,
              members |-> split.members]
  BY DEF Grown
<1> DEFINE born == Born(s.model, labels, novelties)
<1>2. s.model \in Seq(Cluster) /\ s.nextLabel \in Nat
  BY DEF MinasState
<1>3. labels \in [1..split.nNew -> Nat] /\ next \in Nat
  BY <1>2, LabellingsType
<1>4. born \in Seq(Cluster) /\ Len(born) = split.nNew
  BY <1>2, <1>3, BornType
<1> HIDE DEF born, next
<1>5. /\ s.model \o born \in Seq(Cluster)
      /\ Len(s.model \o born) = Len(s.model) + split.nNew
  <2> DEFINE m == s.model
             k == split.nNew
  <2>1. m \in Seq(Cluster) /\ born \in Seq(Cluster) /\ Len(born) = k
    BY <1>2, <1>4
  <2> HIDE DEF m, k
  <2>2. m \o born \in Seq(Cluster) /\ Len(m \o born) = Len(m) + k
    BY <2>1, ConcatProperties
  <2> QED
    BY <2>2 DEF m, k
<1>6. nd = [state |-> [s EXCEPT !.model = s.model \o born, !.nextLabel = next],
            nNew |-> split.nNew, members |-> split.members]
  BY <1>1 DEF born
<1> QED
  BY <1>3, <1>5, <1>6 DEF MinasState

\* The more unknowns a novelty detection gets the better: more than
\* K * (MinEx - 1) of them yield a cluster, and a cluster explains MinEx.
LEMMA NoveltyDetectionFacts ==
  ASSUME NEW s \in MinasState, IsFiniteSet(s.unknowns),
         NEW nd \in NoveltyDetection(s)
  PROVE  /\ nd.state \in MinasState
         /\ nd.state.unknowns = s.unknowns
         /\ nd.state.lastNDCheck = s.lastNDCheck
         /\ nd.state.currId = s.currId
         /\ nd.state.nextId = s.nextId
         /\ nd.nNew \in Nat
         /\ Len(nd.state.model) = Len(s.model) + nd.nNew
         /\ nd.members \subseteq s.unknowns
         /\ Cardinality(s.unknowns) > K * (MinEx - 1) => nd.nNew > 0
         /\ nd.nNew > 0 => Cardinality(nd.members) >= MinEx
         /\ nd.nNew > 0 =>
              Cardinality(s.unknowns \ nd.members) <= (K - 1) * (MinEx - 1)
<1>1. PICK split \in Clustering(s.unknowns) : nd \in DetectionsOf(s, split)
  BY DEF NoveltyDetection
<1>2. PICK novelties \in SUBSET (1..split.nNew),
           run \in LabelRuns(s.nextLabel, split.nNew) :
        nd \in Grown(s, split, novelties, run)
  BY <1>1 DEF DetectionsOf
<1>3. /\ split.nNew \in Nat
      /\ split.members \subseteq s.unknowns
      /\ Cardinality(s.unknowns) > K * (MinEx - 1) => split.nNew > 0
      /\ split.nNew > 0 => Cardinality(split.members) >= MinEx
      /\ split.nNew > 0 =>
           Cardinality(s.unknowns \ split.members) <= (K - 1) * (MinEx - 1)
  BY ClusteringFacts
<1>4. /\ nd.state \in MinasState
      /\ nd.state.unknowns = s.unknowns
      /\ nd.state.lastNDCheck = s.lastNDCheck
      /\ nd.state.currId = s.currId
      /\ nd.state.nextId = s.nextId
      /\ nd.nNew = split.nNew
      /\ nd.members = split.members
      /\ Len(nd.state.model) = Len(s.model) + nd.nNew
  BY <1>2, <1>3, GrownFacts
<1> QED
  BY <1>3, <1>4

-----------------------------------------------------------------------------
\* What the clean up after a fruitful detection leaves.
LEMMA RemoveResolvedFacts ==
  ASSUME NEW nd, nd.state \in MinasState, IsFiniteSet(nd.state.unknowns),
         nd.members \subseteq nd.state.unknowns,
         Cardinality(nd.members) >= MinEx,
         NEW c \in RemoveResolved(nd)
  PROVE  /\ c.state \in MinasState
         /\ c.state.currId = nd.state.currId
         /\ c.state.nextId = nd.state.nextId
         /\ c.state.model = nd.state.model
         /\ c.state.lastNDCheck = nd.state.currId
         /\ c.consumed \subseteq nd.state.unknowns
         /\ Cardinality(c.consumed) >= MinEx
         /\ c.collected = Collected(nd.state, c.consumed)
         /\ c.state.unknowns = nd.state.unknowns \ (c.consumed \cup c.collected)
         /\ IsFiniteSet(c.state.unknowns)
         /\ Cardinality(c.state.unknowns) < Cardinality(nd.state.unknowns)
         /\ c.state.unknowns \subseteq nd.state.unknowns \ nd.members
<1> DEFINE s == nd.state
<1>1. PICK more \in SUBSET (s.unknowns \ nd.members) :
        c = Removed(s, nd.members \cup more)
  BY DEF RemoveResolved
<1>2. s.unknowns \in SUBSET Nat /\ s.currId \in Nat
  BY DEF MinasState
<1> DEFINE gone == c.consumed \cup c.collected
<1>3. /\ c.state \in MinasState
      /\ c.state.currId = s.currId
      /\ c.state.nextId = s.nextId
      /\ c.state.model = s.model
      /\ c.state.lastNDCheck = s.currId
      /\ c.state.unknowns = s.unknowns \ gone
  <2>1. c.state = [s EXCEPT !.unknowns = s.unknowns \ gone, !.lastNDCheck = s.currId]
    BY <1>1 DEF Removed
  <2> HIDE DEF gone
  <2> QED
    BY <1>2, <2>1 DEF MinasState
<1>4. /\ c.consumed \subseteq s.unknowns /\ nd.members \subseteq c.consumed
      /\ c.collected = Collected(s, c.consumed)
  BY <1>1 DEF Removed
<1>5. IsFiniteSet(c.consumed) /\ Cardinality(c.consumed) \in Nat
  BY <1>4, FS_Subset, FS_CardinalityType
<1>6. IsFiniteSet(nd.members) /\ Cardinality(nd.members) \in Nat
  BY FS_Subset, FS_CardinalityType
<1>7. Cardinality(nd.members) <= Cardinality(c.consumed)
  BY <1>4, <1>5, FS_Subset
<1>8. Cardinality(c.consumed) >= MinEx
  BY <1>5, <1>6, <1>7, ParamsAssumption
<1>9. c.consumed # {}
  BY <1>8, FS_EmptySet, ParamsAssumption
<1>10. c.state.unknowns \subseteq s.unknowns /\ c.state.unknowns # s.unknowns
  BY <1>3, <1>4, <1>9
<1>11. /\ IsFiniteSet(c.state.unknowns)
       /\ Cardinality(c.state.unknowns) <= Cardinality(s.unknowns)
       /\ Cardinality(c.state.unknowns) # Cardinality(s.unknowns)
  BY <1>10, FS_Subset
<1>12. Cardinality(c.state.unknowns) \in Nat /\ Cardinality(s.unknowns) \in Nat
  BY <1>11, FS_CardinalityType
<1>13. Cardinality(c.state.unknowns) < Cardinality(s.unknowns)
  BY <1>11, <1>12
<1> QED
  BY <1>3, <1>4, <1>8, <1>11, <1>13, <1>4

\* A buffer below its limit is left alone.
LEMMA NotFullKept ==
  ASSUME NEW s, ~ Full(s), NEW u \in DropWhenFull(s)
  PROVE  u = s
BY DEF DropWhenFull

LEMMA FailedType ==
  ASSUME NEW s, NEW id, NEW h \in HandleUnknown(s, id)
  PROVE  h.failed \in BOOLEAN
<1> DEFINE t == [s EXCEPT !.currId = id, !.unknowns = @ \cup {id}]
<1>1. CASE \E u \in DropWhenFull(t) : h = NoRound(u, Full(t))
  BY <1>1 DEF NoRound
<1>2. CASE \E nd \in NoveltyDetection(RestoreSleep(t)) : h \in AfterDetection(nd)
  <2>1. PICK nd \in NoveltyDetection(RestoreSleep(t)) : h \in AfterDetection(nd)
    BY <1>2
  <2>2. h = Exit(nd.state) \/ \E c \in RemoveResolved(nd) : h \in Cleaned(nd, c)
    BY <2>1 DEF AfterDetection
  <2>3. h.failed = TRUE \/ h.failed = FALSE
    BY <2>2 DEF Exit, NoRound, Cleaned
  <2> QED
    BY <2>3
<1> QED
  BY <1>1, <1>2 DEF HandleUnknown

\* What minasHandleUnknown does to a buffer below its limit.  It takes none of
\* the ways out that the code guards against: the assertion on nearest holds,
\* and the buffer is below its limit without the second garbage collection.
LEMMA HandleUnknownFacts ==
  ASSUME NEW s \in MinasState, IsFiniteSet(s.unknowns),
         Cardinality(s.unknowns) < UnknownsMax,
         NEW id \in Nat, NEW h \in HandleUnknown(s, id)
  PROVE  /\ h.state \in MinasState
         /\ h.state.currId = id /\ h.state.nextId = s.nextId
         /\ Len(h.state.model) >= Len(s.model)
         /\ IsFiniteSet(h.state.unknowns)
         /\ Cardinality(h.state.unknowns) < UnknownsMax
         /\ ~ h.failed /\ ~ h.full /\ h.round \in BOOLEAN
         /\ ~ h.round => /\ h.state.unknowns = s.unknowns \cup {id}
                         /\ h.state.lastNDCheck = s.lastNDCheck
                         /\ \/ Cardinality(h.state.unknowns) < Trigger
                            \/ id <= s.lastNDCheck + Trigger
         /\ h.round => /\ h.consumed \subseteq s.unknowns \cup {id}
                       /\ Cardinality(h.consumed) >= MinEx
                       /\ h.collected = {x \in (s.unknowns \cup {id}) \ h.consumed :
                                           x < s.lastNDCheck}
                       /\ h.state.unknowns = (s.unknowns \cup {id})
                                               \ (h.consumed \cup h.collected)
                       /\ h.state.lastNDCheck = id
                       /\ Cardinality(h.state.unknowns) <= (K - 1) * (MinEx - 1)
<1> DEFINE all == s.unknowns \cup {id}
           t == [s EXCEPT !.currId = id, !.unknowns = all]
<1>1. all \in SUBSET Nat
  BY DEF MinasState
<1>2. /\ t \in MinasState /\ t.unknowns = all /\ t.currId = id
      /\ t.nextId = s.nextId /\ t.lastNDCheck = s.lastNDCheck
      /\ t.model = s.model
  <2> HIDE DEF all
  <2> QED
    BY <1>1 DEF MinasState
<1>3. IsFiniteSet(all) /\ Cardinality(all) \in Nat /\ Cardinality(all) <= UnknownsMax
  <2>1. /\ IsFiniteSet(all)
        /\ Cardinality(all) = IF id \in s.unknowns THEN Cardinality(s.unknowns)
                              ELSE Cardinality(s.unknowns) + 1
    BY FS_AddElement
  <2>2. Cardinality(s.unknowns) \in Nat /\ Cardinality(all) \in Nat
    BY <2>1, FS_CardinalityType
  <2> HIDE DEF all
  <2> QED
    BY <2>1, <2>2, Limits
<1> HIDE DEF all, t
<1>4. HandleUnknown(s, id) =
        IF ~ RoundDue(t)
          THEN {NoRound(u, Full(t)) : u \in DropWhenFull(t)}
          ELSE UNION {AfterDetection(nd) : nd \in NoveltyDetection(RestoreSleep(t))}
  BY DEF HandleUnknown, t, all
<1>5. CASE ~ RoundDue(t)
  <2>1. Cardinality(all) # UnknownsMax
    BY <1>2, <1>5 DEF RoundDue
  <2>2. ~ Full(t) /\ Cardinality(all) < UnknownsMax
    BY <1>2, <1>3, <2>1, Limits DEF Full
  <2>3. PICK u \in DropWhenFull(t) : h = NoRound(u, Full(t))
    BY <1>4, <1>5
  <2>4. u = t
    BY <2>2, <2>3, NotFullKept
  <2>5. /\ h.state = t /\ h.round = FALSE /\ h.failed = FALSE /\ h.full = Full(t)
    BY <2>3, <2>4 DEF NoRound
  <2>6. ~ h.failed /\ ~ h.full /\ ~ h.round /\ h.round \in BOOLEAN
    BY <2>2, <2>5, Zenon
  <2>7. Len(h.state.model) >= Len(s.model)
    BY <1>2, <2>5 DEF MinasState
  <2>8. Cardinality(all) < Trigger \/ id <= s.lastNDCheck + Trigger
    <3>1. ~ (Cardinality(all) >= Trigger /\ UDiffExceeds(id, s.lastNDCheck, Trigger))
      BY <1>2, <1>5 DEF RoundDue
    <3>2. s.lastNDCheck \in Nat /\ Trigger \in Nat
      BY Limits DEF MinasState
    <3> QED
      BY <1>3, <3>1, <3>2 DEF UDiffExceeds
  <2> QED
    BY <1>2, <1>3, <2>2, <2>5, <2>6, <2>7, <2>8 DEF all
<1>6. CASE RoundDue(t)
  <2> DEFINE r == RestoreSleep(t)
  <2>1. /\ r \in MinasState /\ r.unknowns = all /\ r.currId = id
        /\ r.nextId = s.nextId /\ r.lastNDCheck = s.lastNDCheck
        /\ Len(r.model) = Len(s.model)
    BY <1>2, RestoreSleepType DEF SameBuffer
  <2>2. PICK nd \in NoveltyDetection(r) : h \in AfterDetection(nd)
    BY <1>4, <1>6
  <2> HIDE DEF r
  <2>3. Cardinality(all) >= Trigger
    BY <1>2, <1>6, Limits DEF RoundDue
  <2>4. Cardinality(all) > K * (MinEx - 1)
    <3>1. K * (MinEx - 1) = MinEx * K - K
      BY ParamsAssumption
    <3>2. MinEx * K \in Nat
      BY ParamsAssumption
    <3> QED
      BY <1>3, <2>3, <3>1, <3>2, ParamsAssumption DEF Trigger
  <2>5. /\ nd.state \in MinasState
        /\ nd.state.unknowns = all
        /\ nd.state.lastNDCheck = s.lastNDCheck
        /\ nd.state.currId = id
        /\ nd.state.nextId = s.nextId
        /\ nd.nNew \in Nat /\ nd.nNew > 0
        /\ Len(nd.state.model) = Len(s.model) + nd.nNew
        /\ nd.members \subseteq nd.state.unknowns
        /\ Cardinality(nd.members) >= MinEx
        /\ Cardinality(all \ nd.members) <= (K - 1) * (MinEx - 1)
    BY <1>3, <2>1, <2>4, NoveltyDetectionFacts
  <2>6. h \in UNION {Cleaned(nd, c) : c \in RemoveResolved(nd)}
    BY <2>2, <2>5 DEF AfterDetection
  <2>7. PICK c \in RemoveResolved(nd) : h \in Cleaned(nd, c)
    BY <2>6
  <2>8. /\ c.state \in MinasState
        /\ c.state.currId = id
        /\ c.state.nextId = s.nextId
        /\ c.state.model = nd.state.model
        /\ c.state.lastNDCheck = id
        /\ c.consumed \subseteq all
        /\ Cardinality(c.consumed) >= MinEx
        /\ c.collected = Collected(nd.state, c.consumed)
        /\ c.state.unknowns = all \ (c.consumed \cup c.collected)
        /\ IsFiniteSet(c.state.unknowns)
        /\ Cardinality(c.state.unknowns) < Cardinality(all)
        /\ c.state.unknowns \subseteq all \ nd.members
    BY <1>3, <2>5, RemoveResolvedFacts
  <2>9. c.collected = {x \in all \ c.consumed : x < s.lastNDCheck}
    BY <2>5, <2>8 DEF Collected
  <2>10. Cardinality(c.state.unknowns) \in Nat
    BY <2>8, FS_CardinalityType
  <2>11. ~ Full(c.state) /\ Cardinality(c.state.unknowns) < UnknownsMax
    BY <1>3, <2>8, <2>10, Limits DEF Full
  <2>12. PICK u \in DropWhenFull(c.state) :
           h = [state |-> u, nNew |-> nd.nNew, round |-> TRUE, failed |-> FALSE,
                consumed |-> c.consumed, collected |-> c.collected,
                full |-> Full(c.state)]
    BY <2>7 DEF Cleaned
  <2>13. u = c.state
    BY <2>11, <2>12, NotFullKept
  <2>14. /\ h.state = c.state /\ h.round = TRUE /\ h.failed = FALSE
         /\ h.full = Full(c.state)
         /\ h.consumed = c.consumed /\ h.collected = c.collected
    BY <2>12, <2>13
  <2>15. ~ h.failed /\ ~ h.full /\ h.round /\ h.round \in BOOLEAN
    BY <2>11, <2>14, Zenon
  <2>16. Len(h.state.model) >= Len(s.model)
    <3>1. Len(s.model) \in Nat
      BY DEF MinasState
    <3>2. Len(h.state.model) = Len(s.model) + nd.nNew
      BY <2>5, <2>8, <2>14
    <3> QED
      BY <2>5, <3>1, <3>2
  <2>17. Cardinality(c.state.unknowns) <= (K - 1) * (MinEx - 1)
    <3>1. IsFiniteSet(all \ nd.members)
      BY <1>3, FS_Subset
    <3>2. Cardinality(c.state.unknowns) <= Cardinality(all \ nd.members)
      BY <2>8, <3>1, FS_Subset
    <3>3. Cardinality(all \ nd.members) \in Nat /\ (K - 1) * (MinEx - 1) \in Int
      BY <3>1, FS_CardinalityType, ParamsAssumption
    <3> QED
      BY <2>5, <2>10, <3>2, <3>3
  <2> QED
    BY <2>8, <2>9, <2>11, <2>14, <2>15, <2>16, <2>17 DEF all
<1> QED
  BY <1>5, <1>6

-----------------------------------------------------------------------------
\* The least number principle: what takes the place of induction below.
LEMMA LeastNat ==
  ASSUME NEW S \in SUBSET Nat, S # {}
  PROVE  \E m \in S : \A k \in S : m <= k
<1> DEFINE R == OpToRel(<, Nat)
<1>1. R = {ss \in Nat \X Nat : ss[1] < ss[2]}
  BY DEF OpToRel
<1>2. IsWellFoundedOn(R, Nat)
  BY NatLessThanWellFounded
<1> HIDE DEF R
<1>3. PICK m \in S : \A k \in S : <<k, m>> \notin R
  BY <1>2, WFMin
<1>4. \A k \in S : ~ (k < m)
  BY <1>1, <1>3
<1> QED
  BY <1>4

\* The clusters that are there keep what identifies them.
SameClusters(m, n) ==
  \A i \in 1..Len(m) : /\ n[i].id = m[i].id
                       /\ n[i].label = m[i].label
                       /\ n[i].novel = m[i].novel

\* A model may also grow: new clusters are numbered on, are awake, and have the
\* label of an earlier cluster, or nextLabel, or one that is not reserved.
Extends(s, t) ==
  /\ Len(t.model) >= Len(s.model)
  /\ SameClusters(s.model, t.model)
  /\ \A i \in (Len(s.model) + 1)..Len(t.model) :
       /\ t.model[i].id = i - 1
       /\ \/ t.model[i].label \in LabelsOf(s.model) \cup {s.nextLabel}
          \/ t.model[i].label \notin Reserved
       /\ t.model[i].isSleep = FALSE
  /\ t.nextLabel = s.nextLabel \/ t.nextLabel \notin Reserved

\* What keeps the labels of novelties fresh: nextLabel is above every label that
\* is not reserved.
LabelsInOrder(s) ==
  /\ s.nextLabel \notin Reserved
  /\ \A i \in 1..Len(s.model) :
       s.model[i].label \in Reserved \/ s.model[i].label < s.nextLabel
  /\ \A i \in 1..Len(s.model) : s.model[i].novel =>
       /\ s.model[i].label \notin Reserved
       /\ \A j \in 1..(i - 1) : s.model[j].label # s.model[i].label

\* The labels nextLabel runs through go up, and behind the first none is
\* reserved.
LEMMA RunGoesUp ==
  ASSUME NEW l \in Nat, NEW m \in Nat, NEW run \in LabelRuns(l, m)
  PROVE  /\ run \in [0..m -> Nat] /\ run[0] = l
         /\ \A j \in 1..m : run[j] \notin Reserved
         /\ \A i, j \in 0..m : i < j => run[i] < run[j]
<1>1. /\ run \in [0..m -> Nat] /\ run[0] = l
      /\ \A j \in 1..m : run[j - 1] < run[j] /\ run[j] \notin Reserved
  <2>1. Cardinality(Reserved) \in Nat
    BY ReservedFinite, FS_CardinalityType
  <2> QED
    BY <2>1 DEF LabelRuns
<1>2. ASSUME NEW i \in 0..m, NEW j \in 0..m, i < j, ~ (run[i] < run[j])
      PROVE  FALSE
  <2> DEFINE Wrong == {k \in 0..m : i < k /\ ~ (run[i] < run[k])}
  <2>1. PICK k \in Wrong : \A n \in Wrong : k <= n
    <3>1. Wrong \in SUBSET Nat /\ Wrong # {}
      BY <1>2
    <3> HIDE DEF Wrong
    <3> QED
      BY <3>1, LeastNat
  <2>2. k \in 1..m /\ k - 1 \in 0..m /\ run[k - 1] < run[k]
    BY <1>1
  <2>3. k - 1 = i \/ run[i] < run[k - 1]
    BY <2>1, <2>2
  <2> QED
    BY <1>1, <2>1, <2>2, <2>3
<1> QED
  BY <1>1, <1>2

\* Each novelty of a detection takes the next label of the run.
Before(novelties, i) == Cardinality({j \in novelties : j < i})

LEMMA BeforeGoesUp ==
  ASSUME NEW m \in Nat, NEW novelties \in SUBSET (1..m)
  PROVE  /\ Cardinality(novelties) \in 0..m
         /\ \A i \in novelties : /\ Before(novelties, i) \in 0..m
                                 /\ Before(novelties, i) < Cardinality(novelties)
         /\ \A i, j \in novelties :
              i < j => Before(novelties, i) < Before(novelties, j)
<1>1. IsFiniteSet(1..m) /\ Cardinality(1..m) = m
  BY FS_Interval
<1>2. \A A, B : A \subseteq B /\ A # B /\ B \subseteq 1..m =>
        /\ Cardinality(A) \in Nat /\ Cardinality(B) \in Nat
        /\ Cardinality(A) < Cardinality(B) /\ Cardinality(B) <= m
  <2> SUFFICES ASSUME NEW A, NEW B, A \subseteq B, A # B, B \subseteq 1..m
               PROVE  /\ Cardinality(A) \in Nat /\ Cardinality(B) \in Nat
                      /\ Cardinality(A) < Cardinality(B) /\ Cardinality(B) <= m
    OBVIOUS
  <2>1. IsFiniteSet(B) /\ Cardinality(B) <= m
    BY <1>1, FS_Subset
  <2>2. /\ IsFiniteSet(A) /\ Cardinality(A) <= Cardinality(B)
        /\ Cardinality(A) # Cardinality(B)
    BY <2>1, FS_Subset
  <2> QED
    BY <2>1, <2>2, FS_CardinalityType
<1>3. Cardinality(novelties) \in 0..m
  <2>1. IsFiniteSet(novelties) /\ Cardinality(novelties) <= m
    BY <1>1, FS_Subset
  <2> QED
    BY <2>1, FS_CardinalityType
<1>4. ASSUME NEW i \in novelties
      PROVE  /\ Before(novelties, i) \in 0..m
             /\ Before(novelties, i) < Cardinality(novelties)
  <2> DEFINE A == {j \in novelties : j < i}
  <2>1. A \subseteq novelties /\ i \notin A
    OBVIOUS
  <2> HIDE DEF A
  <2>2. Cardinality(A) \in Nat /\ Cardinality(A) < Cardinality(novelties)
    BY <1>2, <2>1
  <2> QED
    BY <1>3, <2>2 DEF A, Before
<1>5. ASSUME NEW i \in novelties, NEW j \in novelties, i < j
      PROVE  Before(novelties, i) < Before(novelties, j)
  <2> DEFINE A == {k \in novelties : k < i}
             B == {k \in novelties : k < j}
  <2>1. A \subseteq B /\ i \in B /\ i \notin A /\ B \subseteq 1..m
    <3>1. novelties \subseteq 1..m /\ \A k \in 1..m : k \in Int
      OBVIOUS
    <3>2. \A k \in novelties : k < i => k < j
      BY <1>5, <3>1
    <3>3. A \subseteq B
      BY <3>2
    <3>4. i \in B
      BY <1>5
    <3>5. i \notin A
      BY <3>1
    <3>6. B \subseteq 1..m
      OBVIOUS
    <3> QED
      BY <3>3, <3>4, <3>5, <3>6
  <2> HIDE DEF A, B
  <2>2. Cardinality(A) < Cardinality(B)
    BY <1>2, <2>1
  <2> QED
    BY <2>2 DEF A, B, Before
<1> QED
  BY <1>3, <1>4, <1>5

\* The labels of a detection: those of novelties go up from nextLabel on, the
\* others are labels of the model or of novelties of this round.
LEMMA LabelsGiven ==
  ASSUME NEW model \in Seq(Cluster), NEW m \in Nat, NEW l \in Nat,
         NEW run \in LabelRuns(l, m), NEW novelties \in SUBSET (1..m),
         NEW labels \in Labellings(model, m, novelties, run)
  PROVE  /\ \A i \in novelties :
              /\ labels[i] = run[Before(novelties, i)]
              /\ \A j \in novelties : i < j => labels[i] < labels[j]
         /\ \A i \in 1..m : \/ labels[i] \in LabelsOf(model)
                            \/ \E j \in novelties : j <= i /\ labels[i] = labels[j]
<1>1. /\ run \in [0..m -> Nat]
      /\ \A i, j \in 0..m : i < j => run[i] < run[j]
  BY RunGoesUp
<1>2. /\ \A i \in novelties : labels[i] = run[Before(novelties, i)]
      /\ \A i \in (1..m) \ novelties :
           \/ labels[i] \in LabelsOf(model)
           \/ \E j \in 1..(i - 1) : labels[i] = labels[j]
  BY DEF Labellings, Before
<1>3. ASSUME NEW i \in novelties, NEW j \in novelties, i < j
      PROVE  labels[i] < labels[j]
  <2>1. /\ Before(novelties, i) \in 0..m /\ Before(novelties, j) \in 0..m
        /\ Before(novelties, i) < Before(novelties, j)
    BY <1>3, BeforeGoesUp
  <2> QED
    BY <1>1, <1>2, <2>1
<1>4. ASSUME NEW i \in 1..m, labels[i] \notin LabelsOf(model),
             \A j \in novelties : j <= i => labels[i] # labels[j]
      PROVE  FALSE
  <2> DEFINE Wrong == {k \in 1..i : labels[k] = labels[i]}
  <2>1. PICK k \in Wrong : \A n \in Wrong : k <= n
    <3>1. Wrong \in SUBSET Nat /\ Wrong # {}
      OBVIOUS
    <3> HIDE DEF Wrong
    <3> QED
      BY <3>1, LeastNat
  <2>2. k \in 1..m /\ k \notin novelties /\ labels[k] \notin LabelsOf(model)
    BY <1>4, <2>1
  <2>3. PICK j \in 1..(k - 1) : labels[k] = labels[j]
    BY <1>2, <2>2
  <2>4. j \in Wrong /\ j < k
    BY <2>1, <2>3
  <2> QED
    BY <2>1, <2>4
<1> QED
  BY <1>2, <1>3, <1>4

\* The model m longer: as it was, and behind it awake clusters, numbered on, with
\* these labels.
Appended(s, t, m, labels, novelties) ==
  /\ Len(t.model) = Len(s.model) + m
  /\ \A i \in 1..Len(s.model) : t.model[i] = s.model[i]
  /\ \A k \in 1..m : /\ t.model[Len(s.model) + k].id = Len(s.model) + k - 1
                     /\ t.model[Len(s.model) + k].label = labels[k]
                     /\ t.model[Len(s.model) + k].latest = 0
                     /\ t.model[Len(s.model) + k].isSleep = FALSE
                     /\ t.model[Len(s.model) + k].novel <=> k \in novelties
                     /\ t.model[Len(s.model) + k].touched = Tracked

\* What a detection does to the model.
LEMMA GrownModel ==
  ASSUME NEW s \in MinasState, NEW split, split.nNew \in Nat,
         NEW novelties \in SUBSET (1..split.nNew),
         NEW run \in LabelRuns(s.nextLabel, split.nNew),
         NEW nd \in Grown(s, split, novelties, run)
  PROVE  /\ nd.state.sleepCounter = s.sleepCounter
         /\ nd.state.nextLabel = run[Cardinality(novelties)]
         /\ \E labels \in Labellings(s.model, split.nNew, novelties, run) :
              Appended(s, nd.state, split.nNew, labels, novelties)
<1> DEFINE m == split.nNew
           next == run[Cardinality(novelties)]
           L == Len(s.model)
<1>1. PICK labels \in Labellings(s.model, m, novelties, run) :
        nd = [state |-> [s EXCEPT !.model = @ \o Born(s.model, labels, novelties),
                                  !.nextLabel = next],
              nNew |-> split.nNew,
              members |-> split.members]
  BY DEF Grown
<1> DEFINE born == Born(s.model, labels, novelties)
           model == nd.state.model
<1>2. s.model \in Seq(Cluster) /\ s.nextLabel \in Nat /\ m \in Nat /\ L \in Nat
  BY DEF MinasState
<1>3. labels \in [1..m -> Nat]
  BY <1>2, LabellingsType
<1>4. born \in Seq(Cluster) /\ Len(born) = m
  BY <1>2, <1>3, BornType
<1>5. \A k \in 1..m : born[k] = [id |-> L + k - 1, label |-> labels[k], latest |-> 0,
                                 isSleep |-> FALSE, novel |-> k \in novelties,
                                 touched |-> Tracked]
  BY <1>3 DEF Born
<1> HIDE DEF born
<1>6. /\ nd.state.model = s.model \o born /\ nd.state.nextLabel = next
      /\ nd.state.sleepCounter = s.sleepCounter
  BY <1>1 DEF born, MinasState
<1>7. model = s.model \o born
  BY <1>6
<1>8. L = Len(s.model)
  OBVIOUS
<1> HIDE DEF m, L, model
<1>9. Len(model) = L + m
  <2>1. Len(s.model \o born) = Len(s.model) + Len(born)
    BY <1>2, <1>4
  <2> QED
    BY <1>4, <1>7, <1>8, <2>1
<1>10. \A i \in 1..L : model[i] = s.model[i]
  BY <1>2, <1>4, <1>7, <1>8
<1>11. \A k \in 1..m : model[L + k] = born[k]
  BY <1>2, <1>4, <1>7, <1>8
<1>12. ASSUME NEW k \in 1..m
       PROVE  /\ model[L + k].id = L + k - 1
              /\ model[L + k].label = labels[k]
              /\ model[L + k].latest = 0
              /\ model[L + k].isSleep = FALSE
              /\ model[L + k].novel <=> k \in novelties
              /\ model[L + k].touched = Tracked
  <2> DEFINE c == [id |-> L + k - 1, label |-> labels[k], latest |-> 0,
                   isSleep |-> FALSE, novel |-> k \in novelties, touched |-> Tracked]
  <2>1. model[L + k] = c
    BY <1>5, <1>11
  <2>2. /\ c.id = L + k - 1 /\ c.label = labels[k] /\ c.latest = 0 /\ c.isSleep = FALSE
        /\ c.touched = Tracked
    OBVIOUS
  <2>3. c.novel <=> k \in novelties
    BY Zenon
  <2> HIDE DEF c
  <2> QED
    BY <2>1, <2>2, <2>3
<1>13. Appended(s, nd.state, m, labels, novelties)
  BY <1>8, <1>9, <1>10, <1>12 DEF Appended, model
<1> QED
  BY <1>1, <1>6, <1>13 DEF m

\* A model so extended only grows, and keeps its labels in order.
LEMMA GrownExtends ==
  ASSUME NEW s \in MinasState, NEW t, NEW m \in Nat, NEW novelties \in SUBSET (1..m),
         NEW run \in LabelRuns(s.nextLabel, m),
         NEW labels \in Labellings(s.model, m, novelties, run),
         Appended(s, t, m, labels, novelties),
         t.nextLabel = run[Cardinality(novelties)]
  PROVE  /\ Extends(s, t)
         /\ LabelsInOrder(s) => LabelsInOrder(t)
<1> DEFINE next == t.nextLabel
           L == Len(s.model)
           old == s.model
           new == t.model
<1>2. old \in Seq(Cluster) /\ s.nextLabel \in Nat /\ L \in Nat /\ L = Len(old)
  BY DEF MinasState
<1>3. labels \in [1..m -> Nat]
  BY <1>2, LabellingsType
<1>6. /\ run \in [0..m -> Nat] /\ run[0] = s.nextLabel
      /\ \A j \in 1..m : run[j] \notin Reserved
      /\ \A i, j \in 0..m : i < j => run[i] < run[j]
  BY <1>2, RunGoesUp
<1>7. /\ \A i \in novelties :
           /\ labels[i] = run[Before(novelties, i)]
           /\ \A j \in novelties : i < j => labels[i] < labels[j]
      /\ \A i \in 1..m : \/ labels[i] \in LabelsOf(old)
                         \/ \E j \in novelties : j <= i /\ labels[i] = labels[j]
  BY <1>2, LabelsGiven
<1>8. /\ Cardinality(novelties) \in 0..m
      /\ \A i \in novelties : /\ Before(novelties, i) \in 0..m
                              /\ Before(novelties, i) < Cardinality(novelties)
  BY <1>2, BeforeGoesUp
<1>9. next \in Nat /\ next = run[Cardinality(novelties)]
  BY <1>6, <1>8
<1>10. \A k \in 1..L : old[k] \in Cluster /\ old[k].label \in Nat
  <2> TAKE k \in 1..L
  <2>1. old[k] \in Cluster
    BY <1>2
  <2> QED
    BY <2>1 DEF Cluster
<1>17. /\ Len(new) = L + m
       /\ \A i \in 1..L : new[i] = old[i]
       /\ \A k \in 1..m : /\ new[L + k].id = L + k - 1
                          /\ new[L + k].label = labels[k]
                          /\ new[L + k].isSleep = FALSE
                          /\ new[L + k].novel <=> k \in novelties
  BY DEF Appended
<1>18. ASSUME NEW i \in 1..(L + m)
       PROVE  i \in 1..L \/ \E k \in 1..m : i = L + k
  <2>1. CASE ~ (i <= L)
    <3>1. i - L \in 1..m /\ i = L + (i - L)
      BY <1>2, <2>1
    <3> QED
      BY <3>1
  <2> QED
    BY <1>2, <2>1
<1>19. \A i \in 1..L : old[i].label \in LabelsOf(old)
  BY <1>2 DEF LabelsOf
<1>20. \A l \in LabelsOf(old) : \E k \in 1..L : l = old[k].label
  BY <1>2 DEF LabelsOf
<1> HIDE DEF next, L, old, new
<1>11. \A i \in novelties : s.nextLabel <= labels[i] /\ labels[i] < next
  <2> TAKE i \in novelties
  <2> DEFINE b == Before(novelties, i)
             c == Cardinality(novelties)
  <2>1. labels[i] = run[b] /\ b \in 0..m /\ c \in 0..m /\ b < c
    BY <1>7, <1>8
  <2>2. next = run[c]
    BY <1>9
  <2> HIDE DEF b, c
  <2>3. run[b] < run[c] /\ (b = 0 \/ run[0] < run[b])
    BY <1>6, <2>1
  <2> QED
    BY <1>2, <1>6, <2>1, <2>2, <2>3
<1>12. \A i \in novelties :
         labels[i] \notin Reserved \/ labels[i] = s.nextLabel
  <2> TAKE i \in novelties
  <2> DEFINE b == Before(novelties, i)
  <2>1. labels[i] = run[b] /\ b \in 0..m
    BY <1>7, <1>8
  <2> HIDE DEF b
  <2> QED
    BY <1>6, <2>1
<1>13. s.nextLabel <= next /\ (next = s.nextLabel \/ next \notin Reserved)
  <2> DEFINE c == Cardinality(novelties)
  <2>1. c \in 0..m /\ next = run[c]
    BY <1>8, <1>9
  <2> HIDE DEF c
  <2>2. c = 0 \/ (run[0] < run[c] /\ run[c] \notin Reserved)
    BY <1>6, <2>1
  <2> QED
    BY <1>2, <1>6, <2>1, <2>2
<1>14. Extends(s, t)
  <2>1. SameClusters(old, new)
    BY <1>2, <1>17 DEF SameClusters
  <2>2. ASSUME NEW i \in (L + 1)..(L + m)
        PROVE  /\ new[i].id = i - 1
               /\ \/ new[i].label \in LabelsOf(old) \cup {s.nextLabel}
                  \/ new[i].label \notin Reserved
               /\ new[i].isSleep = FALSE
    <3>0. i \in 1..(L + m) /\ ~ (i \in 1..L)
      BY <1>2
    <3>1. PICK k \in 1..m : i = L + k
      BY <1>18, <3>0
    <3>2. /\ new[i].id = i - 1
          /\ new[i].label = labels[k]
          /\ new[i].isSleep = FALSE
      <4>1. /\ new[L + k].id = L + k - 1
            /\ new[L + k].label = labels[k]
            /\ new[L + k].isSleep = FALSE
        BY <1>17
      <4>2. /\ new[i].id = L + k - 1
            /\ new[i].label = labels[k]
            /\ new[i].isSleep = FALSE
        BY <3>1, <4>1, Zenon
      <4>3. i - 1 = L + k - 1
        BY <1>2, <3>1
      <4> QED
        BY <4>2, <4>3, Zenon
    <3>3. \/ labels[k] \in LabelsOf(old) \cup {s.nextLabel}
          \/ labels[k] \notin Reserved
      BY <1>7, <1>12, <3>1
    <3> QED
      BY <3>2, <3>3
  <2>3. L + m >= L
    BY <1>2
  <2> QED
    BY <1>13, <1>17, <2>1, <2>2, <2>3 DEF Extends, next, L, old, new
<1>15. ASSUME LabelsInOrder(s)
       PROVE  LabelsInOrder(t)
  <2>1. next \notin Reserved /\ s.nextLabel \notin Reserved
    BY <1>13, <1>15 DEF LabelsInOrder
  <2>2. \A k \in 1..L : old[k].label \in Reserved \/ old[k].label < s.nextLabel
    BY <1>15 DEF LabelsInOrder, L, old
  <2>3. \A i \in 1..L : old[i].novel =>
          /\ old[i].label \notin Reserved
          /\ \A j \in 1..(i - 1) : old[j].label # old[i].label
    BY <1>15 DEF LabelsInOrder, L, old
  <2>4. \A i \in 1..m : labels[i] \in Reserved \/ labels[i] < next
    <3> TAKE i \in 1..m
    <3>1. CASE labels[i] \in LabelsOf(old)
      <4>1. PICK k \in 1..L : labels[i] = old[k].label
        BY <1>20, <3>1
      <4> QED
        BY <1>2, <1>9, <1>10, <1>13, <2>2, <4>1
    <3>2. CASE labels[i] \notin LabelsOf(old)
      BY <1>7, <1>11, <3>2
    <3> QED
      BY <3>1, <3>2
  <2>5. ASSUME NEW i \in 1..(L + m)
        PROVE  new[i].label \in Reserved \/ new[i].label < next
    <3>1. CASE i \in 1..L
      <4>1. new[i] = old[i] /\ old[i].label \in Nat
        BY <1>10, <1>17, <3>1
      <4>2. old[i].label \in Reserved \/ old[i].label < s.nextLabel
        BY <2>2, <3>1
      <4>3. old[i].label \in Reserved \/ old[i].label < next
        BY <1>2, <1>9, <1>13, <4>1, <4>2
      <4> QED
        BY <4>1, <4>3
    <3>2. ASSUME NEW k \in 1..m, i = L + k
          PROVE  new[i].label \in Reserved \/ new[i].label < next
      BY <1>17, <2>4, <3>2
    <3> QED
      BY <1>18, <3>1, <3>2
  <2>6. ASSUME NEW k \in novelties, NEW j \in 1..(L + k - 1)
        PROVE  new[j].label # labels[k]
    <3>1. k \in 1..m /\ L + k - 1 \in Nat /\ j \in 1..(L + m)
      BY <1>2
    <3>2. labels[k] \notin Reserved /\ s.nextLabel <= labels[k] /\ labels[k] \in Nat
      BY <1>3, <1>11, <1>12, <2>1, <3>1
    <3>3. CASE j \in 1..L
      BY <1>2, <1>10, <1>17, <2>2, <3>2, <3>3
    <3>4. ASSUME NEW n \in 1..m, j = L + n
          PROVE  new[j].label # labels[k]
      <4>1. n < k /\ new[j].label = labels[n]
        BY <1>2, <1>17, <3>1, <3>4
      <4>2. CASE labels[n] \in LabelsOf(old)
        <5>1. PICK p \in 1..L : labels[n] = old[p].label
          BY <1>20, <4>2
        <5> QED
          BY <1>2, <1>10, <2>2, <3>2, <4>1, <5>1
      <4>3. CASE \E p \in novelties : p <= n /\ labels[n] = labels[p]
        <5>1. PICK p \in novelties : p <= n /\ labels[n] = labels[p]
          BY <4>3
        <5>2. p \in 1..m /\ p < k /\ labels[p] \in Nat
          BY <1>3, <3>1, <4>1, <5>1
        <5>3. labels[p] < labels[k]
          BY <1>7, <5>2
        <5> QED
          BY <3>2, <4>1, <5>1, <5>2, <5>3
      <4> QED
        BY <1>7, <4>2, <4>3
    <3> QED
      BY <1>18, <3>1, <3>3, <3>4
  <2>7. ASSUME NEW i \in 1..(L + m), new[i].novel
        PROVE  /\ new[i].label \notin Reserved
               /\ \A j \in 1..(i - 1) : new[j].label # new[i].label
    <3>1. CASE i \in 1..L
      <4>1. new[i] = old[i] /\ \A j \in 1..(i - 1) : j \in 1..L /\ new[j] = old[j]
        BY <1>2, <1>17, <3>1
      <4> QED
        BY <2>3, <2>7, <3>1, <4>1
    <3>2. ASSUME NEW k \in 1..m, i = L + k
          PROVE  /\ new[i].label \notin Reserved
                 /\ \A j \in 1..(i - 1) : new[j].label # new[i].label
      <4>0. k \in novelties
        BY <1>17, <2>7, <3>2, Zenon
      <4>1. new[i].label = labels[k] /\ i - 1 = L + k - 1
        BY <1>2, <1>17, <3>2
      <4>2. labels[k] \notin Reserved
        BY <1>12, <2>1, <4>0
      <4> QED
        BY <2>6, <4>0, <4>1, <4>2
    <3> QED
      BY <1>18, <3>1, <3>2
  <2> QED
    BY <1>17, <2>1, <2>5, <2>7 DEF LabelsInOrder, next, L, old, new
<1> QED
  BY <1>14, <1>15

-----------------------------------------------------------------------------
\* What waking, sleeping and matching do to a model, cluster by cluster.
LEMMA RestoreSleepModel ==
  ASSUME NEW s \in MinasState
  PROVE  LET r == RestoreSleep(s)
         IN /\ SameClusters(s.model, r.model)
            /\ s.sleepCounter = 0 => r = s
            /\ s.sleepCounter # 0 =>
                 /\ r.sleepCounter = 0
                 /\ \A i \in 1..Len(s.model) : /\ r.model[i].latest = UInt(s.currId)
                                               /\ r.model[i].touched = TouchedAt(s.currId)
                                               /\ r.model[i].isSleep = FALSE
<1>1. s.model \in Seq(Cluster) /\ DOMAIN s.model = 1..Len(s.model)
  BY DEF MinasState
<1>2. \A i \in 1..Len(s.model) : s.model[i] \in Cluster
  BY <1>1
<1>3. CASE s.sleepCounter = 0
  BY <1>3 DEF RestoreSleep, SameClusters
<1>4. CASE s.sleepCounter # 0
  <2> DEFINE woken == [i \in 1..Len(s.model) |->
                         [s.model[i] EXCEPT !.latest = UInt(s.currId),
                                            !.touched = TouchedAt(s.currId),
                                            !.isSleep = FALSE]]
  <2>1. RestoreSleep(s) = [s EXCEPT !.model = woken, !.sleepCounter = 0]
    BY <1>1, <1>4 DEF RestoreSleep
  <2>2. \A i \in 1..Len(s.model) :
          /\ woken[i].id = s.model[i].id
          /\ woken[i].label = s.model[i].label
          /\ woken[i].novel = s.model[i].novel
          /\ woken[i].latest = UInt(s.currId)
          /\ woken[i].touched = TouchedAt(s.currId)
          /\ woken[i].isSleep = FALSE
    BY <1>2 DEF Cluster
  <2> HIDE DEF woken
  <2>3. RestoreSleep(s).model = woken /\ RestoreSleep(s).sleepCounter = 0
    BY <2>1 DEF MinasState
  <2> QED
    BY <1>4, <2>2, <2>3 DEF SameClusters
<1> QED
  BY <1>3, <1>4

LEMMA HandleSleepModel ==
  ASSUME NEW s \in MinasState
  PROVE  LET t == HandleSleep(s)
         IN \/ t = s
            \/ /\ Len(s.model) - s.sleepCounter > 2 * K
               /\ t.sleepCounter = s.sleepCounter + Cardinality(PutToSleep(s))
               /\ t.currId = s.currId
               /\ \A i \in 1..Len(s.model) :
                    /\ t.model[i].id = s.model[i].id
                    /\ t.model[i].label = s.model[i].label
                    /\ t.model[i].novel = s.model[i].novel
                    /\ t.model[i].latest = s.model[i].latest
                    /\ t.model[i].touched = s.model[i].touched
                    /\ i \in PutToSleep(s) => t.model[i].isSleep = TRUE
                    /\ i \notin PutToSleep(s) => t.model[i] = s.model[i]
<1> DEFINE off == \/ s.currId = 0
                  \/ Len(s.model) - s.sleepCounter <= 2 * K
                  \/ s.currId < ThresholdForgetting
<1>1. s.model \in Seq(Cluster) /\ DOMAIN s.model = 1..Len(s.model)
      /\ Len(s.model) \in Nat /\ s.sleepCounter \in Nat
  BY DEF MinasState
<1>2. \A i \in 1..Len(s.model) : s.model[i] \in Cluster
  BY <1>1
<1>3. CASE off
  BY <1>3 DEF HandleSleep
<1>4. CASE ~ off
  <2> DEFINE slept == [i \in 1..Len(s.model) |->
                         IF i \in PutToSleep(s)
                           THEN [s.model[i] EXCEPT !.isSleep = TRUE]
                           ELSE s.model[i]]
             n == s.sleepCounter + Cardinality(PutToSleep(s))
  <2>1. HandleSleep(s) = [s EXCEPT !.model = slept, !.sleepCounter = n]
    BY <1>1, <1>4 DEF HandleSleep, MinasState
  <2>2. \A i \in 1..Len(s.model) :
          /\ slept[i].id = s.model[i].id
          /\ slept[i].label = s.model[i].label
          /\ slept[i].novel = s.model[i].novel
          /\ slept[i].latest = s.model[i].latest
          /\ slept[i].touched = s.model[i].touched
          /\ i \in PutToSleep(s) => slept[i].isSleep = TRUE
          /\ i \notin PutToSleep(s) => slept[i] = s.model[i]
    BY <1>2 DEF Cluster
  <2> HIDE DEF slept, n
  <2>3. /\ HandleSleep(s).model = slept /\ HandleSleep(s).sleepCounter = n
        /\ HandleSleep(s).currId = s.currId
    BY <2>1 DEF MinasState
  <2>4. Len(s.model) - s.sleepCounter > 2 * K
    BY <1>1, <1>4, ParamsAssumption
  <2> QED
    BY <2>2, <2>3, <2>4 DEF n
<1> QED
  BY <1>3, <1>4

LEMMA AnswerModel ==
  ASSUME NEW s \in MinasState, NEW i \in DOMAIN s.model, NEW id \in Nat,
         NEW isMatch \in BOOLEAN
  PROVE  LET t == Answer(s, i, id, isMatch).state
         IN /\ t.sleepCounter = s.sleepCounter
            /\ t.currId = s.currId
            /\ t.model[i].latest = UInt(id)
            /\ t.model[i].touched = TouchedAt(id)
            /\ \A j \in 1..Len(s.model) :
                 /\ t.model[j].id = s.model[j].id
                 /\ t.model[j].label = s.model[j].label
                 /\ t.model[j].novel = s.model[j].novel
                 /\ t.model[j].isSleep = s.model[j].isSleep
                 /\ j # i => t.model[j] = s.model[j]
<1> DEFINE compared == [s.model EXCEPT ![i] = [@ EXCEPT !.latest = UInt(id),
                                                       !.touched = TouchedAt(id)]]
<1>1. /\ s.model \in Seq(Cluster) /\ Len(s.model) \in Nat
      /\ i \in 1..Len(s.model) /\ DOMAIN s.model = 1..Len(s.model)
  BY DEF MinasState
<1>2. \A j \in 1..Len(s.model) : s.model[j] \in Cluster
  BY <1>1
<1>3. Answer(s, i, id, isMatch).state = [s EXCEPT !.model = compared]
  BY DEF MinasState, Answer
<1>4. compared[i].latest = UInt(id) /\ compared[i].touched = TouchedAt(id)
  BY <1>1, <1>2 DEF Cluster
<1>5. ASSUME NEW j \in 1..Len(s.model)
      PROVE  /\ compared[j].id = s.model[j].id
             /\ compared[j].label = s.model[j].label
             /\ compared[j].novel = s.model[j].novel
             /\ compared[j].isSleep = s.model[j].isSleep
             /\ j # i => compared[j] = s.model[j]
  <2>1. CASE j = i
    BY <1>1, <1>2, <2>1 DEF Cluster
  <2>2. CASE j # i
    BY <1>1, <2>2
  <2> QED
    BY <2>1, <2>2
<1> HIDE DEF compared
<1>6. /\ [s EXCEPT !.model = compared].model = compared
      /\ [s EXCEPT !.model = compared].sleepCounter = s.sleepCounter
      /\ [s EXCEPT !.model = compared].currId = s.currId
  BY DEF MinasState
<1> QED
  BY <1>3, <1>4, <1>5, <1>6

\* The same clusters carry the same labels.
LEMMA SameClustersFacts ==
  ASSUME NEW s \in MinasState, NEW t \in MinasState,
         SameClusters(s.model, t.model), Len(t.model) = Len(s.model),
         t.nextLabel = s.nextLabel
  PROVE  /\ LabelsOf(t.model) = LabelsOf(s.model)
         /\ Extends(s, t)
         /\ LabelsInOrder(s) => LabelsInOrder(t)
<1>1. /\ DOMAIN s.model = 1..Len(s.model) /\ DOMAIN t.model = 1..Len(s.model)
      /\ Len(s.model) \in Nat
  BY DEF MinasState
<1>2. LabelsOf(t.model) = LabelsOf(s.model)
  BY <1>1 DEF LabelsOf, SameClusters
<1>3. Extends(s, t)
  BY <1>1 DEF Extends
<1>4. LabelsInOrder(s) => LabelsInOrder(t)
  BY <1>1 DEF LabelsInOrder, SameClusters
<1> QED
  BY <1>2, <1>3, <1>4

LEMMA IdentifyModel ==
  ASSUME NEW s \in MinasState, NEW id \in Nat, NEW match \in Identify(s, id)
  PROVE  SameClusters(s.model, match.state.model)
<1>1. RestoreSleep(s) \in MinasState /\ SameBuffer(s, RestoreSleep(s))
  BY RestoreSleepType
<1>2. /\ DOMAIN RestoreSleep(s).model = DOMAIN s.model
      /\ Len(RestoreSleep(s).model) = Len(s.model)
  BY <1>1 DEF MinasState, SameBuffer
<1>3. CASE \E i \in NearestAwake(s.model) \ {0}, isMatch \in BOOLEAN :
             match = Answer(s, i, id, isMatch)
  <2>1. NearestAwake(s.model) \ {0} \subseteq DOMAIN s.model
    BY DEF NearestAwake, Awake
  <2> QED
    BY <1>3, <2>1, AnswerModel DEF SameClusters
<1>4. CASE \E i \in DOMAIN s.model, isMatch \in BOOLEAN :
             match = Answer(RestoreSleep(s), i, id, isMatch)
  <2>1. PICK i \in DOMAIN s.model, isMatch \in BOOLEAN :
          match = Answer(RestoreSleep(s), i, id, isMatch)
    BY <1>4
  <2>2. SameClusters(RestoreSleep(s).model, match.state.model)
    BY <1>1, <1>2, <2>1, AnswerModel DEF SameClusters
  <2>3. SameClusters(s.model, RestoreSleep(s).model)
    BY RestoreSleepModel
  <2> QED
    BY <1>2, <2>2, <2>3 DEF SameClusters
<1> QED
  BY <1>3, <1>4 DEF Identify

\* identify answers with the label of a cluster, or with Unk.
LEMMA IdentifyLabel ==
  ASSUME NEW s \in MinasState, NEW id \in Nat, NEW match \in Identify(s, id)
  PROVE  match.label = Unk \/ \E i \in 1..Len(s.model) : match.label = s.model[i].label
<1> DEFINE r == RestoreSleep(s)
<1>1. /\ s.model \in Seq(Cluster) /\ r.model \in Seq(Cluster)
      /\ Len(r.model) = Len(s.model)
  BY RestoreSleepType DEF MinasState, SameBuffer
<1>2. \A i \in 1..Len(s.model) : r.model[i].label = s.model[i].label
  BY RestoreSleepModel DEF SameClusters
<1> HIDE DEF r
<1>3. \/ \E i \in Awake(s.model), isMatch \in BOOLEAN :
           match = Answer(s, i, id, isMatch)
      \/ \E i \in DOMAIN s.model, isMatch \in BOOLEAN :
           match = Answer(r, i, id, isMatch)
  BY DEF Identify, NearestAwake, r
<1>4. CASE \E i \in Awake(s.model), isMatch \in BOOLEAN : match = Answer(s, i, id, isMatch)
  <2>1. PICK i \in Awake(s.model), isMatch \in BOOLEAN : match = Answer(s, i, id, isMatch)
    BY <1>4
  <2>2. match.label = IF isMatch THEN s.model[i].label ELSE Unk
    BY <2>1 DEF Answer
  <2>3. i \in 1..Len(s.model)
    BY <1>1, <2>1 DEF Awake
  <2> QED
    BY <2>2, <2>3
<1>5. CASE \E i \in DOMAIN s.model, isMatch \in BOOLEAN : match = Answer(r, i, id, isMatch)
  <2>1. PICK i \in DOMAIN s.model, isMatch \in BOOLEAN : match = Answer(r, i, id, isMatch)
    BY <1>5
  <2>2. match.label = IF isMatch THEN r.model[i].label ELSE Unk
    BY <2>1 DEF Answer
  <2>3. i \in 1..Len(s.model)
    BY <1>1, <2>1
  <2> QED
    BY <1>2, <2>2, <2>3
<1> QED
  BY <1>3, <1>4, <1>5

\* An unknown arrives: nothing but the buffer changes, or every cluster is woken
\* and those of a detection follow.
LEMMA HandleUnknownModel ==
  ASSUME NEW s \in MinasState, NEW id \in Nat, NEW h \in HandleUnknown(s, id)
  PROVE  LET t == [s EXCEPT !.currId = id, !.unknowns = @ \cup {id}]
             r == RestoreSleep(t)
         IN /\ t \in MinasState /\ r \in MinasState /\ SameBuffer(t, r)
            /\ h.state.currId = id
            /\ \/ /\ h.state.model = s.model
                  /\ h.state.sleepCounter = s.sleepCounter
                  /\ h.state.nextLabel = s.nextLabel
               \/ /\ h.state.sleepCounter = r.sleepCounter
                  /\ \E m \in Nat : \E novelties \in SUBSET (1..m) :
                     \E run \in LabelRuns(r.nextLabel, m) :
                     \E labels \in Labellings(r.model, m, novelties, run) :
                       /\ Appended(r, h.state, m, labels, novelties)
                       /\ h.state.nextLabel = run[Cardinality(novelties)]
<1> DEFINE t == [s EXCEPT !.currId = id, !.unknowns = @ \cup {id}]
           r == RestoreSleep(t)
<1>1. /\ t \in MinasState /\ t.currId = id
      /\ t.model = s.model /\ t.sleepCounter = s.sleepCounter
      /\ t.nextLabel = s.nextLabel
  BY DEF MinasState
<1>2. h \in IF ~ RoundDue(t)
              THEN {NoRound(u, Full(t)) : u \in DropWhenFull(t)}
              ELSE UNION {AfterDetection(nd) : nd \in NoveltyDetection(r)}
  BY DEF HandleUnknown
<1> HIDE DEF t
<1>3. r \in MinasState /\ SameBuffer(t, r)
  BY <1>1, RestoreSleepType
<1> HIDE DEF r
<1>4. ASSUME NEW v \in MinasState, NEW u \in DropWhenFull(v)
      PROVE  /\ u.model = v.model /\ u.sleepCounter = v.sleepCounter
             /\ u.nextLabel = v.nextLabel /\ u.currId = v.currId
  BY <1>4 DEF DropWhenFull, MinasState
<1>5. CASE ~ RoundDue(t)
  <2>1. PICK u \in DropWhenFull(t) : h = NoRound(u, Full(t))
    BY <1>2, <1>5
  <2>2. h.state = u
    BY <2>1 DEF NoRound
  <2> QED
    BY <1>1, <1>3, <1>4, <2>2 DEF t, r
<1>6. CASE RoundDue(t)
  <2>1. PICK nd \in NoveltyDetection(r) : h \in AfterDetection(nd)
    BY <1>2, <1>6
  <2>2. PICK split \in Clustering(r.unknowns) : nd \in DetectionsOf(r, split)
    BY <2>1 DEF NoveltyDetection
  <2>3. PICK novelties \in SUBSET (1..split.nNew), run \in LabelRuns(r.nextLabel, split.nNew) :
          nd \in Grown(r, split, novelties, run)
    BY <2>2 DEF DetectionsOf
  <2>4. split.nNew \in Nat
    BY <2>2, KeptFinite DEF Clustering
  <2>5. /\ nd.state.sleepCounter = r.sleepCounter
        /\ nd.state.nextLabel = run[Cardinality(novelties)]
        /\ \E labels \in Labellings(r.model, split.nNew, novelties, run) :
             Appended(r, nd.state, split.nNew, labels, novelties)
    BY <1>3, <2>3, <2>4, GrownModel
  <2>6. nd.state \in MinasState /\ nd.state.currId = id
    <3>0. PICK labels \in Labellings(r.model, split.nNew, novelties, run) :
            nd = [state |-> [r EXCEPT !.model = @ \o Born(r.model, labels, novelties),
                                      !.nextLabel = run[Cardinality(novelties)]],
                  nNew |-> split.nNew,
                  members |-> split.members]
      BY <2>3 DEF Grown
    <3>1. nd.state = [r EXCEPT !.model = @ \o Born(r.model, labels, novelties),
                               !.nextLabel = run[Cardinality(novelties)]]
      BY <3>0
    <3>2. r.model \in Seq(Cluster) /\ r.nextLabel \in Nat /\ r.currId = id
      BY <1>1, <1>3 DEF MinasState, SameBuffer
    <3>3. labels \in [1..split.nNew -> Nat] /\ run[Cardinality(novelties)] \in Nat
      BY <2>3, <2>4, <3>2, LabellingsType
    <3> DEFINE born == Born(r.model, labels, novelties)
               next == run[Cardinality(novelties)]
    <3>4. born \in Seq(Cluster)
      BY <2>4, <3>2, <3>3, BornType
    <3>5. nd.state = [r EXCEPT !.model = @ \o born, !.nextLabel = next] /\ next \in Nat
      BY <3>1, <3>3
    <3> HIDE DEF born, next
    <3>6. r.model \o born \in Seq(Cluster)
      BY <3>2, <3>4
    <3> QED
      BY <1>3, <3>2, <3>5, <3>6 DEF MinasState
  <2>7. /\ h.state.model = nd.state.model
        /\ h.state.sleepCounter = nd.state.sleepCounter
        /\ h.state.nextLabel = nd.state.nextLabel
        /\ h.state.currId = id
    <3>1. CASE nd.nNew = 0
      <4>1. h = Exit(nd.state)
        BY <2>1, <3>1 DEF AfterDetection
      <4> QED
        BY <2>6, <4>1 DEF Exit, NoRound
    <3>2. CASE nd.nNew # 0
      <4>1. PICK c \in RemoveResolved(nd) : h \in Cleaned(nd, c)
        BY <2>1, <3>2 DEF AfterDetection
      <4>2. PICK consumed : c = Removed(nd.state, consumed)
        BY <4>1 DEF RemoveResolved
      <4>3. /\ c.state.model = nd.state.model
            /\ c.state.sleepCounter = nd.state.sleepCounter
            /\ c.state.nextLabel = nd.state.nextLabel
            /\ c.state.currId = id
        BY <2>6, <4>2 DEF Removed, MinasState
      <4>4. c.state \in MinasState
        <5>1. nd.state.currId \in Nat
          BY <2>6 DEF MinasState
        <5>2. nd.state.unknowns \ (consumed \cup Collected(nd.state, consumed)) \in SUBSET Nat
          BY <2>6 DEF MinasState
        <5> QED
          BY <2>6, <4>2, <5>1, <5>2 DEF Removed, MinasState
      <4>5. PICK u \in DropWhenFull(c.state) : h.state = u
        BY <4>1 DEF Cleaned
      <4> QED
        BY <1>4, <4>3, <4>4, <4>5
    <3> QED
      BY <3>1, <3>2
  <2>8. PICK labels \in Labellings(r.model, split.nNew, novelties, run) :
          Appended(r, nd.state, split.nNew, labels, novelties)
    BY <2>5
  <2>9. Appended(r, h.state, split.nNew, labels, novelties)
    BY <2>7, <2>8 DEF Appended
  <2> DEFINE m == split.nNew
  <2>10. /\ m \in Nat /\ novelties \in SUBSET (1..m)
         /\ run \in LabelRuns(r.nextLabel, m)
         /\ labels \in Labellings(r.model, m, novelties, run)
         /\ Appended(r, h.state, m, labels, novelties)
         /\ h.state.nextLabel = run[Cardinality(novelties)]
         /\ h.state.sleepCounter = r.sleepCounter
    BY <2>3, <2>4, <2>5, <2>7, <2>8, <2>9
  <2> HIDE DEF m
  <2> QED
    BY <1>1, <1>3, <2>7, <2>10 DEF t, r
<1> QED
  BY <1>5, <1>6

\* So an unknown lets the model only grow, and keeps the labels in order.
LEMMA HandleUnknownExtends ==
  ASSUME NEW s \in MinasState, NEW id \in Nat, NEW h \in HandleUnknown(s, id)
  PROVE  /\ Extends(s, h.state)
         /\ LabelsInOrder(s) => LabelsInOrder(h.state)
<1> DEFINE t == [s EXCEPT !.currId = id, !.unknowns = @ \cup {id}]
           r == RestoreSleep(t)
           u == h.state
<1>0. s.model \in Seq(Cluster) /\ Len(s.model) \in Nat
  BY DEF MinasState
<1>1. t \in MinasState /\ t.model = s.model /\ t.nextLabel = s.nextLabel
  BY DEF MinasState
<1>2. /\ r \in MinasState /\ SameBuffer(t, r)
      /\ \/ /\ u.model = s.model
            /\ u.nextLabel = s.nextLabel
         \/ \E m \in Nat : \E novelties \in SUBSET (1..m) :
            \E run \in LabelRuns(r.nextLabel, m) :
            \E labels \in Labellings(r.model, m, novelties, run) :
              /\ Appended(r, u, m, labels, novelties)
              /\ u.nextLabel = run[Cardinality(novelties)]
  BY HandleUnknownModel
<1>3. SameClusters(t.model, r.model)
  BY <1>1, RestoreSleepModel
<1> HIDE DEF t, r, u
<1>4. ASSUME u.model = s.model, u.nextLabel = s.nextLabel
      PROVE  Extends(s, u) /\ (LabelsInOrder(s) => LabelsInOrder(u))
  <2>1. Extends(s, u)
    BY <1>0, <1>4 DEF Extends, SameClusters
  <2>2. LabelsInOrder(s) => LabelsInOrder(u)
    BY <1>4 DEF LabelsInOrder
  <2> QED
    BY <2>1, <2>2
<1>5. ASSUME \E m \in Nat : \E novelties \in SUBSET (1..m) :
             \E run \in LabelRuns(r.nextLabel, m) :
             \E labels \in Labellings(r.model, m, novelties, run) :
               /\ Appended(r, u, m, labels, novelties)
               /\ u.nextLabel = run[Cardinality(novelties)]
      PROVE  Extends(s, u) /\ (LabelsInOrder(s) => LabelsInOrder(u))
  <2>0. PICK m \in Nat : \E novelties \in SUBSET (1..m) :
             \E run \in LabelRuns(r.nextLabel, m) :
             \E labels \in Labellings(r.model, m, novelties, run) :
               /\ Appended(r, u, m, labels, novelties)
               /\ u.nextLabel = run[Cardinality(novelties)]
    BY <1>5
  <2>1. PICK novelties \in SUBSET (1..m), run \in LabelRuns(r.nextLabel, m) :
             \E labels \in Labellings(r.model, m, novelties, run) :
               /\ Appended(r, u, m, labels, novelties)
               /\ u.nextLabel = run[Cardinality(novelties)]
    BY <2>0
  <2>2. PICK labels \in Labellings(r.model, m, novelties, run) :
               /\ Appended(r, u, m, labels, novelties)
               /\ u.nextLabel = run[Cardinality(novelties)]
    BY <2>1
  <2>3. Extends(r, u) /\ (LabelsInOrder(r) => LabelsInOrder(u))
    BY <1>2, <2>2, GrownExtends
  <2>4. /\ LabelsOf(r.model) = LabelsOf(t.model)
        /\ LabelsInOrder(t) => LabelsInOrder(r)
        /\ r.nextLabel = s.nextLabel /\ Len(r.model) = Len(s.model)
    BY <1>1, <1>2, <1>3, SameClustersFacts DEF SameBuffer
  <2>5. LabelsInOrder(s) => LabelsInOrder(t)
    BY <1>1 DEF LabelsInOrder
  <2>6. /\ SameClusters(s.model, u.model)
    BY <1>0, <1>1, <1>3, <2>3, <2>4 DEF Extends, SameClusters
  <2>7. Extends(s, u)
    BY <1>0, <1>1, <2>3, <2>4, <2>6 DEF Extends
  <2> QED
    BY <2>3, <2>4, <2>5, <2>7
<1>6. Extends(s, u) /\ (LabelsInOrder(s) => LabelsInOrder(u))
  BY <1>2, <1>4, <1>5
<1> QED
  BY <1>6 DEF u

\* Identify and minasHandleSleep keep the clusters and their labels.
LEMMA MatchExtends ==
  ASSUME NEW s \in MinasState, NEW id \in Nat, NEW match \in Identify(s, id)
  PROVE  LET t == HandleSleep(match.state)
         IN /\ t \in MinasState /\ SameBuffer(s, t)
            /\ SameClusters(s.model, t.model)
            /\ LabelsInOrder(s) => LabelsInOrder(t)
<1> DEFINE u == match.state
           t == HandleSleep(u)
<1>1. u \in MinasState /\ SameBuffer(s, u) /\ SameClusters(s.model, u.model)
  BY IdentifyType, IdentifyModel
<1>2. t \in MinasState /\ SameBuffer(u, t)
  BY <1>1, HandleSleepType
<1>3. SameClusters(u.model, t.model)
  BY <1>1, HandleSleepModel DEF SameClusters
<1> HIDE DEF u, t
<1>4. SameBuffer(s, t) /\ Len(s.model) \in Nat
  BY <1>1, <1>2 DEF SameBuffer, MinasState
<1>5. SameClusters(s.model, t.model)
  BY <1>1, <1>3 DEF SameClusters, SameBuffer
<1>6. LabelsInOrder(s) => LabelsInOrder(t)
  BY <1>2, <1>4, <1>5, SameClustersFacts DEF SameBuffer
<1> QED
  BY <1>2, <1>4, <1>5, <1>6 DEF u, t

-----------------------------------------------------------------------------

\* The buffer is below its limit; everything else the assertions need follows.
RootOK(r) ==
  /\ r \in Root
  /\ IsFiniteSet(r.st.unknowns)
  /\ Cardinality(r.st.unknowns) < UnknownsMax
  /\ r.failed = FALSE
  /\ r.full = FALSE

LEMMA EmptyRootOK ==
  RootOK(EmptyRoot) /\ EmptyRoot.st = EmptyState
<1>1. EmptyRoot \in Root
  BY DEF EmptyRoot, Root, EmptyState, MinasState
<1>2. EmptyRoot.st.unknowns = {}
  BY DEF EmptyRoot, EmptyState
<1> QED
  BY <1>1, <1>2, FS_EmptySet, Limits DEF RootOK, EmptyRoot

\* A step that changes the state of rank 0 but not its buffer.
LEMMA SameBufferOK ==
  ASSUME NEW r, RootOK(r), NEW s \in MinasState, s.unknowns = r.st.unknowns
  PROVE  LET q == [r EXCEPT !.st = s]
         IN RootOK(q) /\ q.st = s /\ q.round = r.round
<1> DEFINE q == [r EXCEPT !.st = s]
<1>1. r \in Root
  BY DEF RootOK
<1>2. /\ q \in Root /\ q.st = s /\ q.round = r.round
      /\ q.failed = r.failed /\ q.full = r.full
  BY <1>1 DEF Root
<1> HIDE DEF q
<1>3. RootOK(q) /\ q.st = s /\ q.round = r.round
  BY <1>2 DEF RootOK
<1> QED
  BY <1>3 DEF q

\* A cluster line adds one cluster, under the next id and with its own label;
\* novelties get the label after it, unless it is a letter.
LEMMA LinedFacts ==
  ASSUME NEW r, RootOK(r), NEW label \in LineLabels, NEW isSleep \in StackSleep
  PROVE  LET q == Lined(r, label, isSleep)
         IN /\ RootOK(q) /\ q.round = r.round
            /\ q.st.nextId = r.st.nextId
            /\ Len(q.st.model) = Len(r.st.model) + 1
            /\ \A i \in 1..Len(r.st.model) : q.st.model[i] = r.st.model[i]
            /\ q.st.model[Len(r.st.model) + 1].id = Len(r.st.model)
            /\ q.st.model[Len(r.st.model) + 1].label = label
            /\ \/ q.st.nextLabel = r.st.nextLabel
               \/ /\ label \notin Reserved \ {Unk}
                  /\ q.st.nextLabel = label + 1
<1> DEFINE q == Lined(r, label, isSleep)
           c == [id |-> Len(r.st.model), label |-> label,
                 latest |-> UInt(r.st.currId),
                 isSleep |-> isSleep, novel |-> FALSE,
                 touched |-> TouchedAt(r.st.currId)]
           s == AddCluster(r.st, c)
<1>1. r \in Root /\ r.st \in MinasState
  BY DEF RootOK, Root
<1>2. UInt(r.st.currId) \in Nat /\ r.st.model \in Seq(Cluster) /\ Len(r.st.model) \in Nat
  <2>1. r.st.currId \in Nat /\ r.st.model \in Seq(Cluster)
    BY <1>1 DEF MinasState
  <2>2. UInt(r.st.currId) \in Nat
    BY <2>1, UIntType
  <2> QED
    BY <2>1, <2>2
<1>3. c \in Cluster /\ c.id = Len(r.st.model) /\ c.label = label
  <2>1. TouchedAt(r.st.currId) \in 0..Tracked
    BY <1>1, TouchedFacts DEF MinasState
  <2> QED
    BY <1>2, <2>1, InputAssumption DEF Cluster
<1>4. q = [r EXCEPT !.st = s]
  BY <1>1 DEF Lined, Root
<1> HIDE DEF c
<1>5. s \in MinasState /\ s.unknowns = r.st.unknowns /\ s.nextId = r.st.nextId
  BY <1>1, <1>3, AddClusterType DEF SameUnknowns
<1>6. /\ s.model = Append(r.st.model, c)
      /\ \/ s.nextLabel = r.st.nextLabel
         \/ label \notin Reserved \ {Unk} /\ s.nextLabel = label + 1
  BY <1>1, <1>3 DEF AddCluster, MinasState
<1> HIDE DEF s, q
<1>7. RootOK(q) /\ q.st = s /\ q.round = r.round
  BY <1>4, <1>5, SameBufferOK
<1>8. /\ Len(s.model) = Len(r.st.model) + 1
      /\ \A i \in 1..Len(r.st.model) : s.model[i] = r.st.model[i]
      /\ s.model[Len(r.st.model) + 1] = c
  BY <1>2, <1>3, <1>6
<1>9. /\ RootOK(q) /\ q.round = r.round
      /\ q.st.nextId = r.st.nextId
      /\ Len(q.st.model) = Len(r.st.model) + 1
      /\ \A i \in 1..Len(r.st.model) : q.st.model[i] = r.st.model[i]
      /\ q.st.model[Len(r.st.model) + 1].id = Len(r.st.model)
      /\ q.st.model[Len(r.st.model) + 1].label = label
      /\ \/ q.st.nextLabel = r.st.nextLabel
         \/ label \notin Reserved \ {Unk} /\ q.st.nextLabel = label + 1
  BY <1>3, <1>5, <1>6, <1>7, <1>8
<1> QED
  BY <1>9 DEF q

\* An example line takes an id and changes nothing else.
LEMMA NumberedFacts ==
  ASSUME NEW r, RootOK(r)
  PROVE  LET q == Numbered(r)
         IN /\ RootOK(q) /\ q.round = r.round
            /\ q.st.nextId = r.st.nextId + 1
            /\ q.st.model = r.st.model
            /\ q.st.nextLabel = r.st.nextLabel
<1> DEFINE q == Numbered(r)
           s == [r.st EXCEPT !.nextId = @ + 1]
<1>1. r \in Root /\ r.st \in MinasState
  BY DEF RootOK, Root
<1>2. /\ s \in MinasState /\ s.unknowns = r.st.unknowns
      /\ s.nextId = r.st.nextId + 1
      /\ s.model = r.st.model /\ s.nextLabel = r.st.nextLabel
  BY <1>1 DEF MinasState
<1>3. q = [r EXCEPT !.st = s]
  BY <1>1 DEF Numbered, Root
<1> HIDE DEF s, q
<1>4. RootOK(q) /\ q.st = s /\ q.round = r.round
  BY <1>2, <1>3, SameBufferOK
<1> QED
  BY <1>2, <1>4 DEF q

LEMMA MarkerIdsType ==
  ASSUME NEW r, RootOK(r)
  PROVE  MarkerIds(r) \subseteq Nat /\ MarkerIds(r) # {}
<1>1. r.st.nextId \in Nat
  BY DEF RootOK, Root, MinasState
<1> QED
  BY <1>1, StackAssumption DEF MarkerIds

\* Taking note of an id changes currId only.
LEMMA ObservedFacts ==
  ASSUME NEW r, RootOK(r), NEW id \in Nat
  PROVE  LET q == Observed(r, id)
         IN /\ RootOK(q) /\ q.round = r.round
            /\ q.st.nextId = r.st.nextId
            /\ q.st.model = r.st.model
            /\ q.st.nextLabel = r.st.nextLabel
            /\ q.st.unknowns = r.st.unknowns
<1> DEFINE q == Observed(r, id)
           s == [r.st EXCEPT !.currId = IF id > @ THEN id ELSE @]
<1>1. r \in Root /\ r.st \in MinasState
  BY DEF RootOK, Root
<1>2. /\ s \in MinasState /\ s.unknowns = r.st.unknowns
      /\ s.nextId = r.st.nextId
      /\ s.model = r.st.model /\ s.nextLabel = r.st.nextLabel
  BY <1>1 DEF MinasState
<1>3. q = [r EXCEPT !.st = s]
  BY <1>1 DEF Observed, Root
<1> HIDE DEF s, q
<1>4. RootOK(q) /\ q.st = s /\ q.round = r.round
  BY <1>2, <1>3, SameBufferOK
<1> QED
  BY <1>2, <1>4 DEF q

\* An unknown is handled: the detection, if there is one, finds a cluster and
\* makes room, and it only adds clusters to the model.
LEMMA HandledFacts ==
  ASSUME NEW r, RootOK(r), NEW id \in Nat, NEW q \in Handled(r, id)
  PROVE  /\ RootOK(q)
         /\ q.st.nextId = r.st.nextId
         /\ Extends(r.st, q.st)
         /\ q.round # r.round =>
              Cardinality(q.st.unknowns) <= (K - 1) * (MinEx - 1)
<1> DEFINE s == Observed(r, id).st
<1>1. r \in Root /\ r.st \in MinasState /\ r.round.number \in Nat
  BY DEF RootOK, Root
<1>2. /\ s \in MinasState /\ s.unknowns = r.st.unknowns /\ s.nextId = r.st.nextId
      /\ s.model = r.st.model /\ s.nextLabel = r.st.nextLabel
  BY ObservedFacts DEF RootOK, Root
<1>3. IsFiniteSet(s.unknowns) /\ Cardinality(s.unknowns) < UnknownsMax
  BY <1>2 DEF RootOK
<1>4. PICK h \in HandleUnknown(s, id) :
        q = [st |-> h.state,
             round |-> IF h.round
                         THEN [number |-> r.round.number + 1,
                               present |-> s.unknowns \cup {id},
                               consumed |-> h.consumed,
                               collected |-> h.collected]
                         ELSE r.round,
             full |-> r.full \/ h.full,
             failed |-> h.failed]
  BY DEF Handled
<1> HIDE DEF s
<1>5. /\ h.state \in MinasState /\ IsFiniteSet(h.state.unknowns)
      /\ h.state.nextId = s.nextId
      /\ Cardinality(h.state.unknowns) < UnknownsMax
      /\ ~ h.failed /\ ~ h.full /\ h.round \in BOOLEAN
      /\ h.round => /\ h.consumed \subseteq s.unknowns \cup {id}
                    /\ h.collected = {x \in (s.unknowns \cup {id}) \ h.consumed :
                                        x < s.lastNDCheck}
                    /\ Cardinality(h.state.unknowns) <= (K - 1) * (MinEx - 1)
  BY <1>2, <1>3, HandleUnknownFacts
<1>6. q.round \in [number : Nat, present : SUBSET Nat,
                   consumed : SUBSET Nat, collected : SUBSET Nat]
  <2>1. s.unknowns \cup {id} \subseteq Nat
    BY <1>2 DEF MinasState
  <2>2. CASE h.round
    <3>1. h.consumed \subseteq Nat /\ h.collected \subseteq Nat
      BY <1>5, <2>1, <2>2
    <3> QED
      BY <1>1, <1>4, <2>1, <2>2, <3>1
  <2>3. CASE ~ h.round
    BY <1>1, <1>4, <2>3 DEF Root
  <2> QED
    BY <2>2, <2>3
<1>7. q.full = FALSE
  <2>1. q.full = (r.full \/ h.full)
    BY <1>4
  <2> QED
    BY <1>5, <2>1, Zenon DEF RootOK
<1>8. q.failed = FALSE
  <2>1. q.failed = h.failed
    BY <1>4
  <2>2. h.failed \in BOOLEAN
    BY FailedType
  <2>3. ~ q.failed /\ q.failed \in BOOLEAN
    BY <1>5, <2>1, <2>2, Zenon
  <2> QED
    BY <2>3
<1>9. q \in Root /\ q.st = h.state
  BY <1>4, <1>5, <1>6, <1>7, <1>8 DEF Root
<1>10. RootOK(q) /\ q.st.nextId = r.st.nextId
  BY <1>2, <1>5, <1>7, <1>8, <1>9 DEF RootOK
<1>11. Extends(s, q.st)
  BY <1>2, <1>9, HandleUnknownExtends
<1>12. Extends(r.st, q.st)
  BY <1>2, <1>11 DEF Extends, SameClusters, LabelsOf
<1>13. q.round # r.round => Cardinality(q.st.unknowns) <= (K - 1) * (MinEx - 1)
  BY <1>4, <1>5, <1>9
<1> QED
  BY <1>10, <1>12, <1>13
=============================================================================
