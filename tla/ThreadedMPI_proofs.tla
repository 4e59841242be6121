------------------------- MODULE ThreadedMPI_proofs -------------------------
(***************************************************************************)
(* Theorems about the MPI program, for every number of leaves, classifiers *)
(* and examples: types, the replicas of the model, the way of an example   *)
(* from the sampler to the output, and what is left when all threads have  *)
(* joined.                                                                 *)
(*                                                                         *)
(* None of them is inductive.  Inv relates what a thread has in hand to    *)
(* what is on its way: CastInv counts the broadcasts sent and heard,       *)
(* PlaceInv follows every example, MarkerInv every end marker.             *)
(***************************************************************************)
EXTENDS ThreadedMPI, Minas_proofs

M == Len(root.st.model)
N(l) == Len(leaf[l].model)

\* The sampler has not come to the end of the input.
Reading == sampler.pc \notin {"eos", "done"}

\* The ids an end marker can have, none before the end of the input.
EndIds == IF Reading THEN {} ELSE MarkerIds(root)

-----------------------------------------------------------------------------
\* No cluster is labelled Eos: the receivers would take it for the end.
RootInv ==
  /\ RootOK(root)
  /\ root.st.nextLabel # Eos
  /\ \A i \in 1..M : root.st.model[i].id = i - 1 /\ root.st.model[i].label # Eos

\* A packet is made of examples with ids below n, or it is an end marker.
Data(p, n) ==
  /\ p # <<>>
  /\ \A i \in DOMAIN p : p[i].label # Eos /\ p[i].id < n
  /\ \A i, j \in DOMAIN p : p[i].id = p[j].id => i = j

IsMarker(p) == Len(p) = 1 /\ p[1].label = Eos

Good(p, n, ids) == Data(p, n) \/ (IsMarker(p) /\ p[1].id \in ids)

Fine(p) == Good(p, root.st.nextId, EndIds)

PhaseInv ==
  /\ sampler.pc \in {"struct", "center"} => root.st.nextId = 0 /\ M > 0
  /\ root.st.nextId > 0 => M >= MinLines
  /\ sampler.pc = "eos" => sampler.sent < Streams
  /\ sampler.pc = "done" => sampler.sent = Streams
  /\ Reading => sampler.sent = 0
  /\ detector.pc # "failed"
  /\ detector.ended > 0 => ~ Reading
  /\ detector.pc = "done" => detector.ended = Streams
  /\ detector.packet # <<>> => detector.ended < Streams

ClassifierInv(t) ==
  IF classifier[t].pc \in {"receive", "done"}
    THEN classifier[t].packet = <<>>
    ELSE /\ Fine(classifier[t].packet)
         /\ classifier[t].at \in DOMAIN classifier[t].packet
         /\ classifier[t].pc # "check" => Data(classifier[t].packet, root.st.nextId)

\* The examples before the one the detector is at are answered.
DetectorInv ==
  IF detector.packet = <<>> THEN detector.pc \in {"take", "done"}
  ELSE /\ Fine(detector.packet)
       /\ detector.at \in DOMAIN detector.packet
       /\ detector.pc # "take" =>
            /\ detector.pc # "done"
            /\ detector.packet[detector.at].label = Unk
            /\ detector.cast <= M
            /\ detector.pc = "center" => detector.cast < M
       /\ Data(detector.packet, root.st.nextId) =>
            \A i \in DOMAIN detector.packet :
              detector.packet[i].id \in answered <=> i < detector.at

PacketInv ==
  /\ sampler.packet # <<>> =>
       Data(sampler.packet, root.st.nextId) /\ sampler.pc = "read"
  /\ \A l \in Leaves : \A n \in DOMAIN examples[l] : Fine(examples[l][n])
  /\ \A t \in Threads : \A n \in DOMAIN results[t] : Fine(results[t][n])
  /\ \A t \in Threads : ClassifierInv(t)
  /\ DetectorInv

-----------------------------------------------------------------------------
\* Broadcasts sent and heard, two for each cluster: cast 2n is the struct of
\* cluster n, or after the last cluster the end.
Sent ==
  IF sampler.pc = "struct" THEN 2 * M - 2
  ELSE IF sampler.pc = "center" THEN 2 * M - 1
  ELSE CASE detector.pc = "struct" -> 2 * detector.cast
         [] detector.pc = "center" -> 2 * detector.cast + 1
         [] detector.pc = "done" -> 2 * M + 1
         [] OTHER -> 2 * M

Heard(l) == CASE receiver[l].pc \in {"struct", "post"} -> 2 * N(l)
              [] receiver[l].pc \in {"center", "done"} -> 2 * N(l) + 1
              [] OTHER -> 2 * N(l) + 2

\* c is cluster n of the model m or, after the last one, the end.
SameCluster(c, n, m) ==
  IF n < Len(m) THEN c.id = n /\ c.label = m[n + 1].label
  ELSE c.label = Eos

\* q is what is on its way when s broadcasts are out and h are heard.
Line(q, s, h, m) ==
  /\ Len(q) = s - h
  /\ \A n \in 0..Len(m) : h <= 2 * n /\ 2 * n < s =>
       SameCluster(q[2 * n + 1 - h].cluster, n, m)

ReceiverInv(l) ==
  /\ receiver[l].pc # "failed"
  /\ receiver[l].pc \in {"center", "add"} =>
       /\ Len(receiver[l].cluster) = 1
       /\ N(l) < M
       /\ SameCluster(receiver[l].cluster[1], N(l), root.st.model)
  /\ receiver[l].pc = "done" => detector.pc = "done" /\ N(l) = M

LeafCasts(l) ==
  /\ Line(casts[l], Sent, Heard(l), root.st.model)
  /\ N(l) <= M
  /\ \A i \in 1..N(l) : SameCluster(leaf[l].model[i], i - 1, root.st.model)
  /\ ReceiverInv(l)

CastInv == \A l \in Leaves : LeafCasts(l)

-----------------------------------------------------------------------------
InQueue(id, q) == \E n \in DOMAIN q : id \in Ids(q[n])
OnceIn(id, q) ==
  \A m, n \in DOMAIN q : id \in Ids(q[m]) /\ id \in Ids(q[n]) => m = n

WithSampler(id) == id \in Ids(sampler.packet)
WithDetector(id) == id \in Ids(detector.packet) /\ id \notin answered
WithClassifiers(id) == \E t \in Threads : id \in Ids(classifier[t].packet)
InExamples(id) == \E l \in Leaves : InQueue(id, examples[l])
InResults(id) == \E t \in Threads : InQueue(id, results[t])

\* Example id is in one of six kinds of places, and there only once.
SomePlace(id) ==
  \/ WithSampler(id) \/ InExamples(id) \/ WithClassifiers(id)
  \/ InResults(id) \/ WithDetector(id) \/ id \in answered

OneKind(id) ==
  /\ WithSampler(id) => ~ (InExamples(id) \/ WithClassifiers(id) \/ InResults(id)
                           \/ WithDetector(id) \/ id \in answered)
  /\ InExamples(id) => ~ (WithClassifiers(id) \/ InResults(id)
                          \/ WithDetector(id) \/ id \in answered)
  /\ WithClassifiers(id) => ~ (InResults(id) \/ WithDetector(id) \/ id \in answered)
  /\ InResults(id) => ~ (WithDetector(id) \/ id \in answered)

OnceThere(id) ==
  /\ \A l \in Leaves :
       /\ OnceIn(id, examples[l])
       /\ \A k \in Leaves :
            InQueue(id, examples[l]) /\ InQueue(id, examples[k]) => k = l
  /\ \A t \in Threads :
       /\ OnceIn(id, results[t])
       /\ \A u \in Threads :
            InQueue(id, results[t]) /\ InQueue(id, results[u]) => u = t
       /\ \A u \in Threads :
            id \in Ids(classifier[t].packet) /\ id \in Ids(classifier[u].packet)
              => u = t

PlaceInv ==
  /\ answered \subseteq 0..(root.st.nextId - 1)
  /\ \A id \in 0..(root.st.nextId - 1) : SomePlace(id) /\ OneKind(id) /\ OnceThere(id)

-----------------------------------------------------------------------------
\* Of the end markers sent to leaf l, those its classifiers have had; the others
\* are the last packets on their way there.
HadMarker(t) == classifier[t].pc = "done" \/ IsMarker(classifier[t].packet)
EndedAt(l) == {i \in 1..NClassifiers : HadMarker(<<l, i>>)}
SentTo(l) == IF sampler.sent >= l * NClassifiers THEN NClassifiers
             ELSE IF sampler.sent <= (l - 1) * NClassifiers THEN 0
             ELSE sampler.sent - (l - 1) * NClassifiers
Left(l) == SentTo(l) - Cardinality(EndedAt(l))

\* Classifiers whose end marker the detector has.
Delivered == {t \in Threads : classifier[t].pc = "done" /\ results[t] = <<>>}

\* The last n packets of q, and no others, are end markers.
MarkersLast(q, n) ==
  /\ n \in 0..Len(q)
  /\ \A i \in DOMAIN q : IsMarker(q[i]) <=> i > Len(q) - n

LeafMarkers(l) ==
  /\ MarkersLast(examples[l], Left(l))
  /\ EndedAt(l) # {} => Left(l) = Len(examples[l])

ThreadMarkers(t) ==
  \A n \in DOMAIN results[t] :
    IsMarker(results[t][n]) <=> classifier[t].pc = "done" /\ n = Len(results[t])

MarkerInv ==
  /\ \A l \in Leaves : LeafMarkers(l)
  /\ \A t \in Threads : ThreadMarkers(t)
  /\ Cardinality(Delivered) =
       IF IsMarker(detector.packet) THEN detector.ended + 1 ELSE detector.ended

Inv == TypeOK /\ RootInv /\ PhaseInv /\ PacketInv /\ CastInv /\ PlaceInv /\ MarkerInv

-----------------------------------------------------------------------------
LEMMA Constants ==
  /\ NLeaves \in Nat \ {0} /\ NClassifiers \in Nat \ {0} /\ PacketSize \in Nat \ {0}
  /\ Streams \in Nat \ {0}
  /\ Eos \in Nat \ {0} /\ Eos \in Reserved /\ Eos # Unk /\ Unk \in Nat
  /\ StackLabel \in Nat /\ StackLabel # Eos
  /\ K \in Nat \ {0} /\ MinLines \in Nat /\ MinLines >= K
<1>1. /\ NLeaves \in Nat \ {0} /\ NClassifiers \in Nat \ {0} /\ PacketSize \in Nat \ {0}
      /\ Eos \in Reserved \ {Unk} /\ StackLabel \in Nat /\ StackLabel # Eos
      /\ MinLines \in K..MaxLines
  BY MPIAssumption
<1>2. Streams \in Nat \ {0}
  BY <1>1 DEF Streams
<1>3. K \in Nat \ {0} /\ MaxLines \in Nat /\ Reserved \subseteq 1..127 /\ Unk \in Reserved
  BY ParamsAssumption, LabelsAssumption, InputAssumption
<1> QED
  BY <1>1, <1>2, <1>3

\* Thread t runs on leaf t[1].
LEMMA ThreadType ==
  ASSUME NEW t \in Threads
  PROVE  t[1] \in Leaves /\ t[2] \in 1..NClassifiers /\ t = <<t[1], t[2]>>
BY DEF Threads

\* n has the clusters of m, and perhaps more.
Grows(m, n) ==
  /\ Len(m) <= Len(n)
  /\ \A i \in 1..Len(m) : n[i].id = m[i].id /\ n[i].label = m[i].label

\* What the threads of rank 0 may do to its state: the sampler gives out the
\* next id while it reads, and clusters are only added.
RootKept ==
  /\ \/ root'.st.nextId = root.st.nextId
     \/ sampler.pc = "read" /\ root'.st.nextId = root.st.nextId + 1
  /\ Grows(root.st.model, root'.st.model)

LEMMA RootType ==
  ASSUME RootOK(root)
  PROVE  /\ root \in Root /\ root.st \in MinasState
         /\ root.st.nextId \in Nat /\ root.st.model \in Seq(Cluster)
         /\ M \in Nat /\ DOMAIN root.st.model = 1..M
         /\ \A i \in 1..M : /\ root.st.model[i] \in Cluster
                            /\ root.st.model[i].id \in Nat
                            /\ root.st.model[i].label \in Nat
<1>1. root \in Root /\ root.st \in MinasState
  BY DEF RootOK, Root
<1>2. root.st.nextId \in Nat /\ root.st.model \in Seq(Cluster)
  BY <1>1 DEF MinasState
<1>3. \A i \in 1..M : root.st.model[i] \in Cluster
  BY <1>2 DEF M
<1>4. \A i \in 1..M : root.st.model[i].id \in Nat /\ root.st.model[i].label \in Nat
  BY <1>3 DEF Cluster
<1> QED
  BY <1>1, <1>2, <1>3, <1>4 DEF M

LEMMA InitRoot ==
  ASSUME Init
  PROVE  RootInv
<1>1. RootOK(root) /\ root.st = EmptyState
  BY EmptyRootOK DEF Init
<1>2. root.st.nextLabel = 0 /\ M = 0
  BY <1>1 DEF EmptyState, M
<1> QED
  BY <1>1, <1>2, Constants DEF RootInv

\* A cluster of a line, and those of a novelty detection, are not labelled Eos.
LEMMA ReadClusterRoot ==
  ASSUME RootInv, ReadCluster
  PROVE  RootInv' /\ RootKept /\ M' = M + 1 /\ root'.st.nextId = 0
<1>1. RootOK(root)
  BY DEF RootInv
<1>2. PICK label \in LineLabels, isSleep \in StackSleep :
        root' = Lined(root, label, isSleep)
  BY DEF ReadCluster
<1>3. /\ RootOK(root')
      /\ root'.st.nextId = root.st.nextId
      /\ Len(root'.st.model) = M + 1
      /\ \A i \in 1..M : root'.st.model[i] = root.st.model[i]
      /\ root'.st.model[M + 1].id = M
      /\ root'.st.model[M + 1].label = label
      /\ \/ root'.st.nextLabel = root.st.nextLabel
         \/ /\ label \notin Reserved \ {Unk}
            /\ root'.st.nextLabel = label + 1
  BY <1>1, <1>2, LinedFacts DEF M
<1>4. label # Eos /\ (label \notin Reserved \ {Unk} => label + 1 # Eos)
  BY <1>2, MPIAssumption
<1>5. M \in Nat
  BY <1>1, RootType
<1>6. \A i \in 1..(M + 1) : root'.st.model[i].id = i - 1 /\ root'.st.model[i].label # Eos
  <2> SUFFICES ASSUME NEW i \in 1..(M + 1)
               PROVE  root'.st.model[i].id = i - 1 /\ root'.st.model[i].label # Eos
    OBVIOUS
  <2>1. CASE i = M + 1
    BY <1>3, <1>4, <1>5, <2>1
  <2>2. CASE i \in 1..M
    BY <1>3, <2>2 DEF RootInv
  <2> QED
    BY <1>5, <2>1, <2>2
<1>7. root'.st.nextLabel # Eos
  BY <1>3, <1>4 DEF RootInv
<1>8. RootKept
  <2> DEFINE m == root.st.model
             n == root'.st.model
  <2>1. Len(m) \in Nat /\ Len(n) = Len(m) + 1 /\ \A i \in 1..Len(m) : n[i] = m[i]
    BY <1>3, <1>5 DEF M
  <2> HIDE DEF m, n
  <2>2. Grows(m, n)
    BY <2>1 DEF Grows
  <2> QED
    BY <1>3, <2>2 DEF RootKept, m, n
<1>9. root.st.nextId = 0
  BY DEF ReadCluster
<1> QED
  BY <1>3, <1>6, <1>7, <1>8, <1>9 DEF RootInv, M

LEMMA ReadExampleRoot ==
  ASSUME RootInv, ReadExample
  PROVE  /\ RootInv' /\ RootKept
         /\ root'.st.nextId = root.st.nextId + 1
         /\ root'.st.model = root.st.model
<1>1. RootOK(root) /\ root' = Numbered(root) /\ sampler.pc = "read"
  BY DEF RootInv, ReadExample
<1>2. /\ RootOK(root')
      /\ root'.st.nextId = root.st.nextId + 1
      /\ root'.st.model = root.st.model
      /\ root'.st.nextLabel = root.st.nextLabel
  BY <1>1, NumberedFacts
<1>3. M \in Nat
  BY <1>1, RootType
<1> QED
  BY <1>1, <1>2, <1>3 DEF RootInv, RootKept, Grows, M

\* The detector takes note of an id, or handles an unknown.
LEMMA TakenRoot ==
  ASSUME RootInv, NEW id \in Nat, root' = Observed(root, id) \/ root' \in Handled(root, id)
  PROVE  /\ RootInv' /\ RootKept
         /\ root'.st.nextId = root.st.nextId
         /\ root' = Observed(root, id) => root'.st.model = root.st.model
         /\ ~ root'.failed
<1>1. RootOK(root) /\ M \in Nat
  BY RootType DEF RootInv
<1>2. CASE root' = Observed(root, id)
  <2>1. /\ RootOK(root')
        /\ root'.st.nextId = root.st.nextId
        /\ root'.st.model = root.st.model
        /\ root'.st.nextLabel = root.st.nextLabel
    BY <1>1, <1>2, ObservedFacts
  <2> QED
    BY <1>1, <2>1 DEF RootInv, RootKept, Grows, M, RootOK
<1>3. CASE root' \in Handled(root, id) /\ root' # Observed(root, id)
  <2>1. /\ RootOK(root')
        /\ root'.st.nextId = root.st.nextId
        /\ Extends(root.st, root'.st)
    BY <1>1, <1>3, HandledFacts
  <2>2. /\ M <= M'
        /\ \A i \in 1..M : /\ root'.st.model[i].id = root.st.model[i].id
                           /\ root'.st.model[i].label = root.st.model[i].label
        /\ \A i \in (M + 1)..M' :
             /\ root'.st.model[i].id = i - 1
             /\ \/ root'.st.model[i].label \in LabelsOf(root.st.model) \cup {root.st.nextLabel}
                \/ root'.st.model[i].label \notin Reserved
        /\ root'.st.nextLabel = root.st.nextLabel \/ root'.st.nextLabel \notin Reserved
    BY <2>1 DEF Extends, SameClusters, M
  <2>3. Eos \notin LabelsOf(root.st.model)
    BY <1>1, RootType DEF LabelsOf, RootInv, M
  <2>4. root.st.nextLabel # Eos /\ Eos \in Reserved
    BY Constants DEF RootInv
  <2>5. M' \in Nat
    BY <2>1 DEF RootOK, Root, MinasState, M
  <2>6. \A i \in 1..M' : root'.st.model[i].id = i - 1 /\ root'.st.model[i].label # Eos
    <3> SUFFICES ASSUME NEW i \in 1..M'
                 PROVE  root'.st.model[i].id = i - 1 /\ root'.st.model[i].label # Eos
      OBVIOUS
    <3>1. CASE i \in 1..M
      BY <2>2, <3>1 DEF RootInv
    <3>2. CASE i \in (M + 1)..M'
      BY <2>2, <2>3, <2>4, <3>2
    <3> QED
      BY <1>1, <2>5, <3>1, <3>2
  <2> QED
    BY <1>3, <2>1, <2>2, <2>4, <2>6 DEF RootInv, RootKept, Grows, M, RootOK
<1> QED
  BY <1>2, <1>3

-----------------------------------------------------------------------------
LEMMA InitType ==
  ASSUME Init
  PROVE  TypeOK
<1>1. EmptyRoot \in Root /\ EmptyState \in MinasState
  BY EmptyRootOK DEF RootOK, EmptyState, MinasState
<1>2. <<>> \in Packet /\ <<>> \in Seq(Packet) /\ <<>> \in Seq(Cast) /\ <<>> \in Seq(Cluster)
  BY DEF Packet
<1>3. Streams \in Nat /\ NLeaves \in Nat
  BY Constants
<1> QED
  BY <1>1, <1>2, <1>3 DEF Init, TypeOK

\* A queue of a function of queues grows at the end, or gives its head away.
LEMMA PutIn ==
  ASSUME NEW I, NEW S, NEW q \in [I -> Seq(S)], NEW i \in I, NEW p \in S
  PROVE  LET r == [q EXCEPT ![i] = Append(@, p)]
         IN /\ r \in [I -> Seq(S)] /\ r[i] = Append(q[i], p)
            /\ \A j \in I : j # i => r[j] = q[j]
<1>1. Append(q[i], p) \in Seq(S)
  OBVIOUS
<1> QED
  BY <1>1

LEMMA TakenFrom ==
  ASSUME NEW I, NEW S, NEW q \in [I -> Seq(S)], NEW i \in I, q[i] # <<>>
  PROVE  LET r == [q EXCEPT ![i] = Tail(@)]
         IN /\ r \in [I -> Seq(S)] /\ r[i] = Tail(q[i])
            /\ \A j \in I : j # i => r[j] = q[j]
            /\ Head(q[i]) \in S
<1>1. Tail(q[i]) \in Seq(S) /\ Head(q[i]) \in S
  OBVIOUS
<1> QED
  BY <1>1

LEMMA CastType ==
  ASSUME NEW c \in Cluster, NEW what \in {"struct", "center"},
         casts \in [Leaves -> Seq(Cast)], Broadcast(what, c)
  PROVE  /\ casts' \in [Leaves -> Seq(Cast)]
         /\ \A l \in Leaves : \E e \in Cast : e.cluster = c /\ casts'[l] = Append(casts[l], e)
<1> DEFINE e == [what |-> what, cluster |-> c]
<1>1. e \in Cast /\ e.cluster = c
  BY DEF Cast
<1>2. casts' = [l \in Leaves |-> Append(casts[l], e)]
  BY DEF Broadcast
<1> HIDE DEF e
<1> QED
  BY <1>1, <1>2

LEMMA DestType ==
  ASSUME sampler.dest \in 0..NLeaves
  PROVE  NextDest \in Leaves
<1>1. sampler.dest \in Nat /\ NLeaves \in Nat \ {0}
  BY Constants
<1>2. sampler.dest % NLeaves \in 0..(NLeaves - 1)
  BY <1>1
<1> QED
  BY <1>1, <1>2 DEF NextDest, Leaves

\* The classifier that gets the next end marker.
LEMMA LeafOf ==
  ASSUME NEW n \in Nat, n < Streams
  PROVE  LET l == (n \div NClassifiers) + 1
         IN /\ l \in Leaves
            /\ (l - 1) * NClassifiers <= n
            /\ n < l * NClassifiers
<1> DEFINE q == n \div NClassifiers
<1>1. NLeaves \in Nat \ {0} /\ NClassifiers \in Nat \ {0}
  BY Constants
<1>2. q \in Nat /\ q * NClassifiers <= n /\ n < (q + 1) * NClassifiers
  BY <1>1
<1> HIDE DEF q
<1>3. q < NLeaves
  <2> SUFFICES ASSUME q >= NLeaves
               PROVE  FALSE
    BY <1>1, <1>2
  <2>1. q * NClassifiers >= NLeaves * NClassifiers
    BY <1>1, <1>2
  <2> QED
    BY <1>1, <1>2, <2>1 DEF Streams
<1>4. q + 1 \in Leaves /\ (q + 1) - 1 = q
  BY <1>1, <1>2, <1>3 DEF Leaves
<1>5. /\ q + 1 \in Leaves
      /\ ((q + 1) - 1) * NClassifiers <= n
      /\ n < (q + 1) * NClassifiers
  BY <1>2, <1>4
<1> QED
  BY <1>5 DEF q

LEMMA StepType ==
  ASSUME TypeOK
  PROVE  /\ sampler.packet \in Packet /\ sampler.dest \in 0..NLeaves
         /\ sampler.sent \in 0..Streams /\ sampler.sent \in Nat
         /\ detector.packet \in Packet /\ detector.at \in Nat \ {0}
         /\ detector.cast \in Nat /\ detector.ended \in 0..Streams
         /\ \A l \in Leaves : /\ leaf[l] \in MinasState
                              /\ leaf[l].model \in Seq(Cluster) /\ N(l) \in Nat
                              /\ ready[l] \in Nat
                              /\ receiver[l].cluster \in Seq(Cluster)
                              /\ examples[l] \in Seq(Packet) /\ casts[l] \in Seq(Cast)
         /\ \A t \in Threads : /\ classifier[t].packet \in Packet
                               /\ classifier[t].at \in Nat \ {0}
                               /\ results[t] \in Seq(Packet)
<1>1. Streams \in Nat
  BY Constants
<1>2. \A l \in Leaves : leaf[l] \in MinasState
  BY DEF TypeOK
<1>3. \A l \in Leaves : leaf[l].model \in Seq(Cluster) /\ N(l) \in Nat
  BY <1>2 DEF MinasState, N
<1> QED
  BY <1>1, <1>2, <1>3 DEF TypeOK

LEMMA SamplerType ==
  ASSUME Inv, Sampler
  PROVE  TypeOK'
<1>1. TypeOK /\ RootInv /\ PhaseInv
  BY DEF Inv
<1>2. /\ root.st.model \in Seq(Cluster) /\ M \in Nat /\ root.st.nextId \in Nat
      /\ \A i \in 1..M : root.st.model[i] \in Cluster
  BY <1>1, RootType DEF RootInv
<1>3. /\ sampler.packet \in Packet /\ sampler.dest \in 0..NLeaves
      /\ sampler.sent \in 0..Streams /\ sampler.sent \in Nat
      /\ Streams \in Nat /\ NextDest \in Leaves /\ NextDest \in 0..NLeaves
      /\ Eos \in Nat /\ StackLabel \in Nat
  <2>1. NextDest \in Leaves
    BY <1>1, DestType DEF TypeOK
  <2>2. Leaves \subseteq 0..NLeaves
    BY Constants DEF Leaves
  <2> QED
    BY <1>1, <2>1, <2>2, Constants, StepType
<1>0. examples \in [Leaves -> Seq(Packet)]
  BY <1>1 DEF TypeOK
<1>4. CASE ReadCluster
  <2>1. root' \in Root
    BY <1>1, <1>4, ReadClusterRoot DEF RootInv, RootOK
  <2>2. sampler' \in [pc : {"read", "struct", "center", "eos", "done"},
                      packet : Packet, dest : 0..NLeaves, sent : 0..Streams]
    BY <1>1, <1>4 DEF ReadCluster, TypeOK
  <2> QED
    BY <1>1, <1>4, <2>1, <2>2 DEF ReadCluster, TypeOK, leafVars, network
<1>5. CASE CastLine
  <2>1. root.st.model[M] \in Cluster
    BY <1>1, <1>2, <1>5 DEF CastLine, PhaseInv
  <2>2. casts' \in [Leaves -> Seq(Cast)]
    BY <1>1, <1>5, <2>1, CastType DEF CastLine, TypeOK, M
  <2>3. sampler' \in [pc : {"read", "struct", "center", "eos", "done"},
                      packet : Packet, dest : 0..NLeaves, sent : 0..Streams]
    BY <1>1, <1>5 DEF CastLine, TypeOK
  <2> QED
    BY <1>1, <1>5, <2>2, <2>3 DEF CastLine, TypeOK, leafVars
<1>6. CASE ReadExample
  <2>1. root' \in Root
    BY <1>1, <1>6, ReadExampleRoot DEF RootInv, RootOK
  <2> DEFINE p == Append(sampler.packet, [id |-> root.st.nextId, label |-> StackLabel])
  <2>2. p \in Packet /\ <<>> \in Packet
    BY <1>2, <1>3 DEF Packet, Example
  <2> HIDE DEF p
  <2>3. \/ sampler' = [sampler EXCEPT !.packet = p] /\ examples' = examples
        \/ /\ sampler' = [sampler EXCEPT !.packet = <<>>, !.dest = NextDest]
           /\ examples' = [examples EXCEPT ![NextDest] = Append(@, p)]
    BY <1>6 DEF ReadExample, SendExamples, p
  <2>4. examples' \in [Leaves -> Seq(Packet)]
    <3>1. [examples EXCEPT ![NextDest] = Append(@, p)] \in [Leaves -> Seq(Packet)]
      BY <1>0, <1>3, <2>2, PutIn
    <3> QED
      BY <1>0, <2>3, <3>1
  <2>5. sampler' \in [pc : {"read", "struct", "center", "eos", "done"},
                      packet : Packet, dest : 0..NLeaves, sent : 0..Streams]
    BY <1>1, <1>3, <2>2, <2>3 DEF TypeOK
  <2> QED
    BY <1>1, <1>6, <2>1, <2>4, <2>5 DEF ReadExample, TypeOK, leafVars
<1>7. CASE EndOfInput
  <2>1. <<>> \in Packet
    BY DEF Packet
  <2>2. \/ sampler' = [sampler EXCEPT !.pc = "eos"] /\ examples' = examples
        \/ /\ sampler' = [sampler EXCEPT !.pc = "eos", !.packet = <<>>, !.dest = NextDest]
           /\ examples' = [examples EXCEPT ![NextDest] = Append(@, sampler.packet)]
    BY <1>7 DEF EndOfInput, SendExamples
  <2>3. examples' \in [Leaves -> Seq(Packet)]
    <3>1. [examples EXCEPT ![NextDest] = Append(@, sampler.packet)] \in [Leaves -> Seq(Packet)]
      BY <1>3, <1>0, PutIn
    <3> QED
      BY <1>0, <2>2, <3>1
  <2>4. sampler' \in [pc : {"read", "struct", "center", "eos", "done"},
                      packet : Packet, dest : 0..NLeaves, sent : 0..Streams]
    BY <1>1, <1>3, <2>1, <2>2 DEF TypeOK
  <2> QED
    BY <1>1, <1>7, <2>3, <2>4 DEF EndOfInput, TypeOK, leafVars
<1>8. CASE SendEos
  <2> DEFINE l == (sampler.sent \div NClassifiers) + 1
  <2>1. PICK id \in MarkerIds(root) :
          examples' = [examples EXCEPT ![l] = Append(@, <<[id |-> id, label |-> Eos]>>)]
    BY <1>8 DEF SendEos
  <2>2. sampler.sent < Streams
    BY <1>1, <1>8 DEF SendEos, PhaseInv
  <2>3. l \in Leaves
    BY <1>3, <2>2, LeafOf
  <2>4. id \in Nat
    BY <1>1, <2>1, MarkerIdsType DEF RootInv
  <2> DEFINE p == <<[id |-> id, label |-> Eos]>>
  <2>5. p \in Packet
    BY <1>3, <2>4 DEF Packet, Example
  <2> HIDE DEF l, p
  <2>6. examples' \in [Leaves -> Seq(Packet)]
    <3>1. examples' = [examples EXCEPT ![l] = Append(@, p)]
      BY <2>1 DEF p, l
    <3> QED
      BY <1>0, <2>3, <2>5, <3>1, PutIn
  <2>7. sampler.sent + 1 \in 0..Streams
    BY <1>3, <2>2
  <2>8. sampler' \in [pc : {"read", "struct", "center", "eos", "done"},
                      packet : Packet, dest : 0..NLeaves, sent : 0..Streams]
    BY <1>1, <1>8, <2>7 DEF SendEos, TypeOK
  <2> QED
    BY <1>1, <1>8, <2>6, <2>8 DEF SendEos, TypeOK, leafVars
<1> QED
  BY <1>4, <1>5, <1>6, <1>7, <1>8 DEF Sampler

LEMMA PacketType ==
  ASSUME NEW p \in Packet
  PROVE  /\ p \in Seq(Example) /\ Len(p) \in Nat /\ DOMAIN p = 1..Len(p)
         /\ \A i \in DOMAIN p : p[i] \in Example /\ p[i].id \in Nat /\ p[i].label \in Nat
<1>1. p \in Seq(Example) /\ Len(p) \in Nat /\ DOMAIN p = 1..Len(p)
  BY DEF Packet
<1>2. \A i \in DOMAIN p : p[i] \in Example
  BY <1>1
<1> QED
  BY <1>1, <1>2 DEF Example

\* What detector and classifiers make of the packet in their hands.
LEMMA Relabelled ==
  ASSUME NEW p \in Packet, NEW at \in DOMAIN p, NEW label \in Nat
  PROVE  LET q == [p EXCEPT ![at].label = label]
         IN /\ q \in Packet /\ Len(q) = Len(p) /\ DOMAIN q = DOMAIN p
            /\ \A i \in DOMAIN p : q[i].id = p[i].id
            /\ \A i \in DOMAIN p : i # at => q[i] = p[i]
            /\ q[at].label = label
<1> DEFINE e == [p[at] EXCEPT !.label = label]
           q == [p EXCEPT ![at] = e]
<1>1. /\ p \in Seq(Example) /\ Len(p) \in Nat /\ DOMAIN p = 1..Len(p)
      /\ \A i \in DOMAIN p : p[i] \in Example
  BY PacketType
<1>2. e \in Example /\ e.id = p[at].id /\ e.label = label
  BY <1>1 DEF Example
<1> HIDE DEF e
<1>3. q \in Seq(Example) /\ Len(q) = Len(p) /\ DOMAIN q = DOMAIN p
  BY <1>1, <1>2
<1>4. q[at] = e /\ \A i \in DOMAIN p : i # at => q[i] = p[i]
  BY <1>1
<1> HIDE DEF q
<1>5. /\ q \in Packet /\ Len(q) = Len(p) /\ DOMAIN q = DOMAIN p
      /\ \A i \in DOMAIN p : q[i].id = p[i].id
      /\ \A i \in DOMAIN p : i # at => q[i] = p[i]
      /\ q[at].label = label
  BY <1>2, <1>3, <1>4 DEF Packet
<1> QED
  BY <1>5 DEF q, e

LEMMA DetectorType ==
  ASSUME Inv, Detector
  PROVE  TypeOK'
<1>1. /\ TypeOK /\ RootInv /\ PhaseInv /\ DetectorInv
      /\ results \in [Threads -> Seq(Packet)] /\ casts \in [Leaves -> Seq(Cast)]
  BY DEF Inv, PacketInv, TypeOK
<1>2. /\ M \in Nat /\ Streams \in Nat \ {0} /\ detector.packet \in Packet
      /\ detector.ended \in 0..Streams /\ detector.cast \in Nat /\ Eos \in Nat
      /\ \A i \in 1..M : root.st.model[i] \in Cluster
      /\ root \in Root
  BY <1>1, RootType, Constants, StepType DEF RootInv
<1> DEFINE Pcs == {"take", "struct", "center", "done", "failed"}
           Ats == Nat \ {0}
           Ends == 0..Streams
           DetectorSet == [pc : Pcs, packet : Packet, at : Ats, cast : Nat, ended : Ends]
<1>3. /\ detector \in DetectorSet
      /\ DetectorSet = [pc : {"take", "struct", "center", "done", "failed"},
                        packet : Packet, at : Nat \ {0}, cast : Nat, ended : 0..Streams]
  BY <1>1 DEF TypeOK
<1>0. /\ 1 \in Ats /\ detector.at + 1 \in Ats
      /\ {"take", "struct", "center", "done", "failed"} \subseteq Pcs
      /\ \A n \in Nat : n < Streams => n + 1 \in Ends
  BY <1>1, <1>2, StepType
<1> HIDE DEF Pcs, Ats, Ends
<1>4. Advanced \in DetectorSet /\ Advanced.ended = detector.ended
  <2>1. <<>> \in Packet
    BY DEF Packet
  <2>2. CASE detector.at = Len(detector.packet)
    BY <1>0, <1>3, <2>1, <2>2 DEF Advanced
  <2>3. CASE detector.at # Len(detector.packet)
    BY <1>0, <1>3, <2>1, <2>3 DEF Advanced
  <2> QED
    BY <2>2, <2>3
<1>5. CASE TakePacket
  <2>1. PICK t \in Threads :
          /\ results[t] # <<>>
          /\ detector' = [detector EXCEPT !.packet = Head(results[t]), !.at = 1]
          /\ results' = [results EXCEPT ![t] = Tail(@)]
    BY <1>5 DEF TakePacket
  <2>2. results' \in [Threads -> Seq(Packet)] /\ Head(results[t]) \in Packet
    BY <1>1, <2>1, TakenFrom
  <2> DEFINE p == Head(results[t])
  <2>3. p \in Packet /\ detector' = [detector EXCEPT !.packet = p, !.at = 1]
    BY <2>1, <2>2
  <2> HIDE DEF p
  <2>4. detector' \in DetectorSet
    BY <1>0, <1>3, <2>3
  <2> QED
    BY <1>1, <1>3, <1>5, <2>2, <2>4 DEF TakePacket, TypeOK, leafVars
<1>6. CASE TakeExample
  <2> DEFINE e == detector.packet[detector.at]
  <2>1. detector.packet # <<>> /\ detector.ended < Streams /\ detector.at \in DOMAIN detector.packet
    BY <1>1, <1>6 DEF TakeExample, PhaseInv, DetectorInv
  <2>2. e.id \in Nat
    BY <1>2, <2>1, PacketType
  <2>3. \/ /\ root' = Observed(root, e.id)
           /\ detector' = [Advanced EXCEPT !.ended = @ + 1]
           /\ UNCHANGED answered
        \/ /\ root' = Observed(root, e.id)
           /\ detector' = Advanced
           /\ answered' = answered \cup {e.id}
        \/ /\ root' \in Handled(root, e.id)
           /\ detector' = [detector EXCEPT
                             !.pc = IF root'.failed THEN "failed" ELSE "struct",
                             !.cast = Len(root.st.model)]
           /\ UNCHANGED answered
    BY <1>6 DEF TakeExample
  <2> HIDE DEF e
  <2>4. root' \in Root
    <3>1. root' = Observed(root, e.id) \/ root' \in Handled(root, e.id)
      BY <2>3
    <3>2. RootInv'
      BY <1>1, <2>2, <3>1, TakenRoot
    <3> QED
      BY <3>2 DEF RootInv, RootOK
  <2>5. detector' \in DetectorSet
    <3>1. detector.ended + 1 \in Ends
      BY <1>0, <1>2, <2>1
    <3>2. [Advanced EXCEPT !.ended = @ + 1] \in DetectorSet
      BY <1>4, <3>1
    <3>3. [detector EXCEPT !.pc = IF root'.failed THEN "failed" ELSE "struct",
                           !.cast = Len(root.st.model)] \in DetectorSet
      BY <1>0, <1>2, <1>3 DEF M
    <3> QED
      BY <1>4, <2>3, <3>2, <3>3
  <2>6. answered' \subseteq Nat
    BY <1>1, <2>2, <2>3 DEF TypeOK
  <2> QED
    BY <1>1, <1>3, <1>6, <2>4, <2>5, <2>6 DEF TakeExample, TypeOK, leafVars, network
<1>7. CASE CastNew
  <2>1. root.st.model[detector.cast + 1] \in Cluster
    BY <1>2, <1>7 DEF CastNew, M
  <2>2. casts' \in [Leaves -> Seq(Cast)]
    BY <1>1, <1>7, <2>1, CastType DEF CastNew
  <2>3. detector' \in DetectorSet
    <3>1. \/ detector' = [detector EXCEPT !.pc = "center"]
          \/ detector' = [detector EXCEPT !.pc = "struct", !.cast = @ + 1]
      BY <1>7 DEF CastNew
    <3>2. detector.cast + 1 \in Nat
      BY <1>2
    <3> QED
      BY <1>0, <1>3, <3>1, <3>2
  <2> QED
    BY <1>1, <1>3, <1>7, <2>2, <2>3 DEF CastNew, TypeOK, leafVars
<1>8. CASE PrintUnknown
  <2>1. detector.packet # <<>> /\ detector.at \in DOMAIN detector.packet
    BY <1>1, <1>8 DEF PrintUnknown, DetectorInv
  <2>2. answered' \subseteq Nat
    BY <1>1, <1>2, <1>8, <2>1, PacketType DEF PrintUnknown, TypeOK
  <2> QED
    BY <1>1, <1>3, <1>4, <1>8, <2>2 DEF PrintUnknown, TypeOK, leafVars, network
<1>9. CASE EndOfStreams
  <2> DEFINE c == [id |-> 0, label |-> Eos, latest |-> 0, isSleep |-> FALSE, novel |-> FALSE,
                   touched |-> 0]
  <2>0. 0 \in 0..Tracked
    BY ParamsAssumption
  <2>1. c \in Cluster
    BY <1>2, <2>0 DEF Cluster
  <2>2. Broadcast("struct", c)
    BY <1>9 DEF EndOfStreams
  <2> HIDE DEF c
  <2>3. casts' \in [Leaves -> Seq(Cast)]
    BY <1>1, <2>1, <2>2, CastType
  <2>4. detector' \in DetectorSet
    BY <1>0, <1>3, <1>9 DEF EndOfStreams
  <2> QED
    BY <1>1, <1>3, <1>9, <2>3, <2>4 DEF EndOfStreams, TypeOK, leafVars
<1> QED
  BY <1>5, <1>6, <1>7, <1>8, <1>9 DEF Detector

LEMMA ReceiverType ==
  ASSUME Inv, NEW l \in Leaves, Receiver(l)
  PROVE  TypeOK'
<1>1. /\ TypeOK /\ CastInv
      /\ casts \in [Leaves -> Seq(Cast)] /\ leaf \in [Leaves -> MinasState]
      /\ ready \in [Leaves -> Nat]
  BY DEF Inv, TypeOK
<1> DEFINE Pcs == {"struct", "center", "add", "post", "done", "failed"}
           ReceiverSet == [Leaves -> [pc : Pcs, cluster : Seq(Cluster)]]
<1>2. /\ receiver \in ReceiverSet /\ receiver[l].cluster \in Seq(Cluster)
      /\ <<>> \in Seq(Cluster)
      /\ {"struct", "center", "add", "post", "done", "failed"} \subseteq Pcs
      /\ ReceiverSet = [Leaves -> [pc : {"struct", "center", "add", "post", "done", "failed"},
                                   cluster : Seq(Cluster)]]
  BY <1>1 DEF TypeOK
<1> HIDE DEF Pcs
<1>3. CASE HearStruct(l)
  <2> DEFINE c == Head(casts[l]).cluster
  <2>1. casts' \in [Leaves -> Seq(Cast)] /\ Head(casts[l]) \in Cast
    BY <1>1, <1>3, TakenFrom DEF HearStruct
  <2>2. c \in Cluster
    BY <2>1 DEF Cast
  <2>3. receiver' = [receiver EXCEPT ![l] = IF c.label = Eos
                                              THEN [pc |-> "done", cluster |-> <<>>]
                                              ELSE [pc |-> "center", cluster |-> <<c>>]]
    BY <1>3 DEF HearStruct
  <2> HIDE DEF c
  <2>4. <<c>> \in Seq(Cluster)
    BY <2>2
  <2>5. receiver' \in ReceiverSet
    BY <1>2, <2>3, <2>4
  <2> QED
    BY <1>1, <1>2, <1>3, <2>1, <2>5 DEF HearStruct, TypeOK, rootVars
<1>4. CASE HearCenter(l)
  <2>1. casts' \in [Leaves -> Seq(Cast)]
    BY <1>1, <1>4, TakenFrom DEF HearCenter
  <2>2. receiver' \in ReceiverSet
    BY <1>2, <1>4 DEF HearCenter
  <2> QED
    BY <1>1, <1>2, <1>4, <2>1, <2>2 DEF HearCenter, TypeOK, rootVars
<1>5. CASE Add(l)
  <2> DEFINE c == receiver[l].cluster[1]
  <2>1. Len(receiver[l].cluster) = 1
    BY <1>1, <1>5 DEF Add, CastInv, LeafCasts, ReceiverInv
  <2>2. c \in Cluster
    BY <1>2, <2>1
  <2>3. \/ /\ leaf' = [leaf EXCEPT ![l] = AddCluster(@, c)]
           /\ receiver' = [receiver EXCEPT ![l] = [pc |-> "post", cluster |-> <<>>]]
        \/ /\ receiver' = [receiver EXCEPT ![l].pc = "failed"]
           /\ UNCHANGED leaf
    BY <1>5 DEF Add
  <2> HIDE DEF c
  <2>4. AddCluster(leaf[l], c) \in MinasState
    BY <1>1, <2>2, AddClusterType
  <2>5. leaf' \in [Leaves -> MinasState]
    BY <1>1, <2>3, <2>4
  <2>6. receiver' \in ReceiverSet
    <3>1. \/ receiver' = [receiver EXCEPT ![l] = [pc |-> "post", cluster |-> <<>>]]
          \/ receiver' = [receiver EXCEPT ![l].pc = "failed"]
      BY <2>3
    <3>2. CASE receiver' = [receiver EXCEPT ![l] = [pc |-> "post", cluster |-> <<>>]]
      BY <1>2, <3>2
    <3>3. CASE receiver' = [receiver EXCEPT ![l].pc = "failed"]
      BY <1>2, <3>3
    <3> QED
      BY <3>1, <3>2, <3>3
  <2> QED
    BY <1>1, <1>2, <1>5, <2>5, <2>6 DEF Add, TypeOK, rootVars, network
<1>6. CASE Post(l)
  <2>1. ready' \in [Leaves -> Nat]
    BY <1>1, <1>6, Constants DEF Post
  <2>2. receiver' \in ReceiverSet
    BY <1>2, <1>6 DEF Post
  <2> QED
    BY <1>1, <1>2, <1>6, <2>1, <2>2 DEF Post, TypeOK, rootVars, network
<1> QED
  BY <1>3, <1>4, <1>5, <1>6 DEF Receiver

LEMMA ClassifierType ==
  ASSUME Inv, NEW t \in Threads, Classifier(t)
  PROVE  TypeOK'
<1>1. /\ TypeOK /\ ClassifierInv(t)
      /\ examples \in [Leaves -> Seq(Packet)] /\ results \in [Threads -> Seq(Packet)]
      /\ leaf \in [Leaves -> MinasState] /\ ready \in [Leaves -> Nat]
  BY DEF Inv, PacketInv, TypeOK
<1> DEFINE Pcs == {"receive", "check", "wait", "identify", "done"}
           Ats == Nat \ {0}
           One == [pc : Pcs, packet : Packet, at : Ats]
<1>2. /\ classifier \in [Threads -> One] /\ classifier[t].packet \in Packet
      /\ <<>> \in Packet /\ classifier[t].at \in Nat
      /\ {"receive", "check", "wait", "identify", "done"} \subseteq Pcs
      /\ 1 \in Ats /\ classifier[t].at + 1 \in Ats
      /\ [Threads -> One] =
           [Threads -> [pc : {"receive", "check", "wait", "identify", "done"},
                        packet : Packet, at : Nat \ {0}]]
  <2>1. classifier \in [Threads -> One]
    BY <1>1 DEF TypeOK
  <2>2. <<>> \in Packet
    BY DEF Packet
  <2> QED
    BY <1>1, <2>1, <2>2, StepType
<1> HIDE DEF Pcs, Ats
<1>3. t[1] \in Leaves
  BY ThreadType
<1>pc. ASSUME NEW v \in Pcs, classifier' = [classifier EXCEPT ![t].pc = v]
      PROVE  classifier' \in [Threads -> One]
  <2>1. classifier[t] \in One
    BY <1>2
  <2> DEFINE c == [classifier[t] EXCEPT !.pc = v]
  <2>2. c \in One
    BY <2>1
  <2>3. classifier' = [classifier EXCEPT ![t] = c]
    BY <1>pc
  <2> HIDE DEF c, One
  <2> QED
    BY <1>2, <2>2, <2>3
<1>4. CASE Receive(t)
  <2> DEFINE p == Head(examples[t[1]])
  <2>1. examples' \in [Leaves -> Seq(Packet)] /\ p \in Packet
    BY <1>1, <1>3, <1>4, TakenFrom DEF Receive
  <2>2. classifier' = [classifier EXCEPT ![t] = [pc |-> "check", packet |-> p, at |-> 1]]
    BY <1>4 DEF Receive
  <2> HIDE DEF p
  <2>3. classifier' \in [Threads -> One]
    BY <1>2, <2>1, <2>2
  <2> QED
    BY <1>1, <1>2, <1>4, <2>1, <2>3 DEF Receive, TypeOK, rootVars
<1>5. CASE ForwardEos(t)
  <2>1. results' \in [Threads -> Seq(Packet)]
    BY <1>1, <1>2, <1>5, PutIn DEF ForwardEos, Answers
  <2>2. classifier' \in [Threads -> One]
    BY <1>2, <1>5 DEF ForwardEos
  <2> QED
    BY <1>1, <1>2, <1>5, <2>1, <2>2 DEF ForwardEos, TypeOK, rootVars
<1>6. CASE Check(t)
  <2>1. \/ classifier' = [classifier EXCEPT ![t].pc = "wait"]
        \/ classifier' = [classifier EXCEPT ![t].pc = "identify"]
    BY <1>6 DEF Check
  <2>2. classifier' \in [Threads -> One]
    BY <1>2, <1>pc, <2>1
  <2> QED
    BY <1>1, <1>2, <1>6, <2>2 DEF Check, TypeOK, rootVars, network
<1>7. CASE Wake(t)
  <2>1. classifier' \in [Threads -> One]
    BY <1>2, <1>7, <1>pc DEF Wake
  <2>2. ready' \in [Leaves -> Nat]
    BY <1>1, <1>3, <1>7 DEF Wake
  <2> QED
    BY <1>1, <1>2, <1>7, <2>1, <2>2 DEF Wake, TypeOK, rootVars, network
<1>8. CASE IdentifyNext(t)
  <2> DEFINE me == classifier[t]
             e == me.packet[me.at]
  <2>1. PICK match \in Identify(leaf[t[1]], e.id) :
          LET packet == [me.packet EXCEPT ![me.at].label = match.label]
          IN /\ leaf' = [leaf EXCEPT ![t[1]] = match.state]
             /\ IF me.at = Len(me.packet)
                  THEN /\ Answers(t, packet)
                       /\ classifier' = [classifier EXCEPT ![t] =
                            [pc |-> "receive", packet |-> <<>>, at |-> 1]]
                  ELSE /\ classifier' = [classifier EXCEPT ![t] =
                            [pc |-> "check", packet |-> packet, at |-> me.at + 1]]
                       /\ UNCHANGED results
    BY <1>8 DEF IdentifyNext
  <2> DEFINE p == [me.packet EXCEPT ![me.at].label = match.label]
  <2>2. me.at \in DOMAIN me.packet
    BY <1>1, <1>8 DEF IdentifyNext, ClassifierInv
  <2>3. e.id \in Nat /\ leaf[t[1]] \in MinasState
    BY <1>1, <1>2, <1>3, <2>2, PacketType
  <2>4. match.state \in MinasState
    BY <2>1, <2>3, IdentifyType
  <2>5. match.label \in Nat
    <3>1. leaf[t[1]].model \in Seq(Cluster)
      BY <2>3 DEF MinasState
    <3>2. \A i \in 1..Len(leaf[t[1]].model) : leaf[t[1]].model[i].label \in Nat
      <4>1. \A i \in 1..Len(leaf[t[1]].model) : leaf[t[1]].model[i] \in Cluster
        BY <3>1
      <4> QED
        BY <4>1 DEF Cluster
    <3> QED
      BY <2>1, <2>3, <3>2, IdentifyLabel, Constants
  <2>6. p \in Packet
    BY <1>2, <2>2, <2>5, Relabelled
  <2>7. \/ /\ results' = [results EXCEPT ![t] = Append(@, p)]
           /\ classifier' = [classifier EXCEPT ![t] =
                               [pc |-> "receive", packet |-> <<>>, at |-> 1]]
        \/ /\ results' = results
           /\ classifier' = [classifier EXCEPT ![t] =
                               [pc |-> "check", packet |-> p, at |-> me.at + 1]]
    BY <2>1 DEF Answers
  <2>8. leaf' \in [Leaves -> MinasState]
    BY <1>1, <2>1, <2>4
  <2> HIDE DEF p
  <2>9. results' \in [Threads -> Seq(Packet)]
    <3>1. [results EXCEPT ![t] = Append(@, p)] \in [Threads -> Seq(Packet)]
      BY <1>1, <2>6, PutIn
    <3> QED
      BY <1>1, <2>7, <3>1
  <2>10. classifier' \in [Threads -> One]
    <3>1. CASE classifier' = [classifier EXCEPT ![t] =
                               [pc |-> "receive", packet |-> <<>>, at |-> 1]]
      BY <1>2, <3>1
    <3>2. CASE classifier' = [classifier EXCEPT ![t] =
                               [pc |-> "check", packet |-> p, at |-> me.at + 1]]
      <4>1. [pc |-> "check", packet |-> p, at |-> me.at + 1] \in One
        BY <1>2, <2>6
      <4> QED
        BY <1>2, <3>2, <4>1
    <3> QED
      BY <2>7, <3>1, <3>2
  <2> QED
    BY <1>1, <1>2, <1>8, <2>8, <2>9, <2>10 DEF IdentifyNext, TypeOK, rootVars
<1> QED
  BY <1>4, <1>5, <1>6, <1>7, <1>8 DEF Classifier

LEMMA TypeNext ==
  ASSUME Inv, [Next]_vars
  PROVE  TypeOK'
<1>1. CASE UNCHANGED vars
  <2>1. TypeOK
    BY DEF Inv
  <2> QED
    BY <1>1, <2>1 DEF vars, rootVars, leafVars, network, TypeOK
<1> QED
  BY <1>1, SamplerType, DetectorType, ReceiverType, ClassifierType DEF Next, Terminated

-----------------------------------------------------------------------------
\* A packet is data or a marker, never both.
LEMMA GoodCases ==
  ASSUME NEW p \in Packet, NEW n, NEW ids, Good(p, n, ids), NEW i \in DOMAIN p
  PROVE  /\ p # <<>>
         /\ p[i].label = Eos => /\ IsMarker(p) /\ ~ Data(p, n)
                                /\ i = 1 /\ Len(p) = 1 /\ p[1].id \in ids
         /\ p[i].label # Eos => Data(p, n) /\ ~ IsMarker(p) /\ p[i].id < n
<1>1. Len(p) \in Nat /\ DOMAIN p = 1..Len(p)
  BY PacketType
<1> QED
  BY <1>1 DEF Good, Data, IsMarker

LEMMA GoodGrows ==
  ASSUME NEW p \in Packet, NEW n \in Nat, NEW m \in Nat, n <= m, NEW A, NEW B, A \subseteq B
  PROVE  /\ Data(p, n) => Data(p, m)
         /\ Good(p, n, A) => Good(p, m, B)
<1>1. \A i \in DOMAIN p : p[i].id \in Nat
  BY PacketType
<1>2. Data(p, n) => Data(p, m)
  BY <1>1 DEF Data
<1> QED
  BY <1>2 DEF Good

LEMMA DataNotMarker ==
  ASSUME NEW p \in Packet, NEW n, Data(p, n)
  PROVE  ~ IsMarker(p) /\ p # <<>> /\ (n \in Nat => n > 0)
<1>1. Len(p) \in Nat /\ DOMAIN p = 1..Len(p) /\ \A i \in DOMAIN p : p[i].id \in Nat
  BY PacketType
<1>2. p # <<>> /\ Len(p) > 0
  BY <1>1 DEF Data, Packet
<1>3. 1 \in DOMAIN p
  BY <1>1, <1>2
<1> QED
  BY <1>1, <1>2, <1>3 DEF Data, IsMarker

\* The example the detector is at tells what it has.
LEMMA AtExample ==
  ASSUME Inv, detector.packet # <<>>
  PROVE  LET e == detector.packet[detector.at]
         IN /\ detector.at \in DOMAIN detector.packet /\ e.id \in Nat /\ e.label \in Nat
            /\ e.label = Eos => /\ IsMarker(detector.packet) /\ detector.at = 1
                                /\ Len(detector.packet) = 1
                                /\ e.id \in EndIds /\ ~ Reading
                                /\ ~ Data(detector.packet, root.st.nextId)
            /\ e.label # Eos => /\ Data(detector.packet, root.st.nextId)
                                /\ ~ IsMarker(detector.packet)
                                /\ e.id < root.st.nextId /\ root.st.nextId > 0
            /\ sampler.pc \notin {"struct", "center"}
<1>1. /\ detector.packet \in Packet /\ Fine(detector.packet)
      /\ detector.at \in DOMAIN detector.packet /\ root.st.nextId \in Nat
  BY StepType, RootType DEF Inv, PacketInv, DetectorInv, RootInv
<1> DEFINE e == detector.packet[detector.at]
<1>2. e.id \in Nat /\ e.label \in Nat
  BY <1>1, PacketType
<1>3. /\ e.label = Eos => /\ IsMarker(detector.packet) /\ detector.at = 1
                          /\ Len(detector.packet) = 1
                          /\ e.id \in EndIds
                          /\ ~ Data(detector.packet, root.st.nextId)
      /\ e.label # Eos => /\ Data(detector.packet, root.st.nextId)
                          /\ ~ IsMarker(detector.packet)
                          /\ e.id < root.st.nextId
  BY <1>1, GoodCases DEF Fine
<1> HIDE DEF e
<1>4. e.label = Eos => ~ Reading
  BY <1>3 DEF EndIds
<1>5. e.label # Eos => root.st.nextId > 0
  BY <1>1, <1>2, <1>3
<1>6. sampler.pc \notin {"struct", "center"}
  BY <1>4, <1>5 DEF Inv, PhaseInv, Reading
<1>7. /\ detector.at \in DOMAIN detector.packet /\ e.id \in Nat /\ e.label \in Nat
      /\ e.label = Eos => /\ IsMarker(detector.packet) /\ detector.at = 1
                          /\ Len(detector.packet) = 1
                          /\ e.id \in EndIds /\ ~ Reading
                          /\ ~ Data(detector.packet, root.st.nextId)
      /\ e.label # Eos => /\ Data(detector.packet, root.st.nextId)
                          /\ ~ IsMarker(detector.packet)
                          /\ e.id < root.st.nextId /\ root.st.nextId > 0
      /\ sampler.pc \notin {"struct", "center"}
  BY <1>1, <1>2, <1>3, <1>4, <1>5, <1>6
<1> QED
  BY <1>7 DEF e

\* The three ways of an example through the detector.
TakeMarker ==
  /\ detector.packet[detector.at].label = Eos
  /\ root' = Observed(root, detector.packet[detector.at].id)
  /\ detector' = [Advanced EXCEPT !.ended = @ + 1]
  /\ answered' = answered

TakeKnown ==
  /\ detector.packet[detector.at].label \notin {Eos, Unk}
  /\ root' = Observed(root, detector.packet[detector.at].id)
  /\ detector' = Advanced
  /\ answered' = answered \cup {detector.packet[detector.at].id}

TakeUnknown ==
  /\ detector.packet[detector.at].label = Unk
  /\ root' \in Handled(root, detector.packet[detector.at].id)
  /\ detector' = [detector EXCEPT !.pc = "struct", !.cast = M]
  /\ answered' = answered

LEMMA TakeCases ==
  ASSUME Inv, TakeExample
  PROVE  /\ detector.pc = "take" /\ detector.packet # <<>>
         /\ TakeMarker \/ TakeKnown \/ TakeUnknown
         /\ RootInv' /\ RootKept /\ root'.st.nextId = root.st.nextId
         /\ ~ TakeUnknown => root'.st.model = root.st.model
<1> DEFINE e == detector.packet[detector.at]
<1>1. detector.pc = "take" /\ detector.packet # <<>>
  BY DEF TakeExample
<1>2. e.id \in Nat /\ RootInv
  BY <1>1, AtExample DEF Inv
<1>3. \/ TakeMarker
      \/ TakeKnown
      \/ /\ e.label = Unk
         /\ root' \in Handled(root, e.id)
         /\ detector' = [detector EXCEPT
                           !.pc = IF root'.failed THEN "failed" ELSE "struct",
                           !.cast = M]
         /\ answered' = answered
  BY DEF TakeExample, TakeMarker, TakeKnown, M
<1>4. root' = Observed(root, e.id) \/ root' \in Handled(root, e.id)
  BY <1>3 DEF TakeMarker, TakeKnown
<1>5. /\ RootInv' /\ RootKept /\ root'.st.nextId = root.st.nextId /\ ~ root'.failed
      /\ root' = Observed(root, e.id) => root'.st.model = root.st.model
  BY <1>2, <1>4, TakenRoot
<1>6. TakeMarker \/ TakeKnown \/ TakeUnknown
  BY <1>3, <1>5 DEF TakeUnknown
<1>7. ~ TakeUnknown => root' = Observed(root, e.id)
  BY <1>6 DEF TakeMarker, TakeKnown
<1> QED
  BY <1>1, <1>5, <1>6, <1>7

\* What every step does to the state of rank 0.
LEMMA RootNext ==
  ASSUME Inv, [Next]_vars
  PROVE  RootInv' /\ RootKept /\ EndIds \subseteq EndIds'
<1>1. RootInv /\ TypeOK /\ M \in Nat /\ root.st.nextId \in Nat
  BY RootType DEF Inv, RootInv
<1>2. CASE root' = root
  <2>1. RootInv' /\ RootKept
    BY <1>1, <1>2 DEF RootInv, RootKept, Grows, M
  <2>2. Reading' => Reading
    <3>1. sampler' = sampler \/ Sampler
      BY DEF Next, Detector, TakePacket, TakeExample, CastNew, PrintUnknown, EndOfStreams,
             Receiver, HearStruct, HearCenter, Add, Post, Classifier, Receive, ForwardEos,
             Check, Wake, IdentifyNext, Terminated, vars, rootVars
    <3>2. CASE sampler' = sampler
      BY <3>2 DEF Reading
    <3>3. CASE Sampler
      BY <1>1, <3>3 DEF Sampler, ReadCluster, CastLine, ReadExample, EndOfInput, SendEos,
                        Reading, TypeOK
    <3> QED
      BY <3>1, <3>2, <3>3
  <2> QED
    BY <1>2, <2>1, <2>2 DEF EndIds
<1>3. CASE root' # root
  <2>1. ReadCluster \/ ReadExample \/ TakeExample
    BY <1>3 DEF Next, Sampler, CastLine, EndOfInput, SendEos, Detector, TakePacket, CastNew,
                PrintUnknown, EndOfStreams,
                Receiver, HearStruct, HearCenter, Add, Post, Classifier, Receive, ForwardEos,
                Check, Wake, IdentifyNext, Terminated, vars, rootVars
  <2>2. CASE ReadCluster
    BY <1>1, <2>2, ReadClusterRoot DEF EndIds, Reading, ReadCluster
  <2>3. CASE ReadExample
    BY <1>1, <2>3, ReadExampleRoot DEF EndIds, Reading, ReadExample
  <2>4. CASE TakeExample
    <3>1. RootInv' /\ RootKept /\ root'.st.nextId = root.st.nextId
      BY <2>4, TakeCases
    <3>2. sampler' = sampler
      BY <2>4 DEF TakeExample
    <3> QED
      BY <3>1, <3>2 DEF EndIds, Reading, MarkerIds
  <2> QED
    BY <2>1, <2>2, <2>3, <2>4
<1> QED
  BY <1>2, <1>3

\* Packets stay what they are.
LEMMA FineKept ==
  ASSUME Inv, [Next]_vars
  PROVE  /\ root.st.nextId \in Nat /\ root'.st.nextId \in Nat
         /\ root.st.nextId <= root'.st.nextId
         /\ \A p \in Packet :
              /\ Data(p, root.st.nextId) => Data(p, root'.st.nextId)
              /\ Fine(p) => Good(p, root'.st.nextId, EndIds')
<1>1. root.st.nextId \in Nat /\ RootKept /\ EndIds \subseteq EndIds'
  BY RootNext, RootType DEF Inv, RootInv
<1>2. root'.st.nextId \in Nat /\ root.st.nextId <= root'.st.nextId
  BY <1>1 DEF RootKept
<1> QED
  BY <1>1, <1>2, GoodGrows DEF Fine

LEMMA InitPhase ==
  ASSUME Init
  PROVE  PhaseInv
<1>1. root.st = EmptyState
  BY EmptyRootOK DEF Init
<1> QED
  BY <1>1, Constants DEF Init, PhaseInv, Reading, EmptyState

LEMMA PhaseNext ==
  ASSUME Inv, [Next]_vars
  PROVE  PhaseInv'
<1>1. /\ PhaseInv /\ TypeOK /\ M \in Nat /\ M' \in Nat /\ M <= M'
      /\ root.st.nextId \in Nat /\ Streams \in Nat \ {0}
      /\ \/ root'.st.nextId = root.st.nextId
         \/ sampler.pc = "read" /\ root'.st.nextId = root.st.nextId + 1
  <2>1. RootOK(root) /\ RootOK(root)'
    BY RootNext DEF Inv, RootInv
  <2>2. M' \in Nat
    BY <2>1 DEF RootOK, Root, MinasState, M
  <2> QED
    BY <2>1, <2>2, RootNext, RootType, Constants DEF Inv, RootKept, Grows, M
<1>2. /\ sampler.pc \in {"read", "struct", "center", "eos", "done"}
      /\ sampler.sent \in 0..Streams
      /\ detector.pc \in {"take", "struct", "center", "done", "failed"}
      /\ detector.ended \in 0..Streams
      /\ sampler' \in [pc : {"read", "struct", "center", "eos", "done"},
                       packet : Packet, dest : 0..NLeaves, sent : 0..Streams]
  BY <1>1, TypeNext DEF TypeOK
<1>3. CASE Sampler
  <2>1. detector' = detector
    BY <1>3 DEF Sampler, ReadCluster, CastLine, ReadExample, EndOfInput, SendEos
  <2>2. CASE ReadCluster
    <3>1. M' = M + 1 /\ root'.st.nextId = 0
      BY <2>2, ReadClusterRoot DEF Inv
    <3>2. sampler.pc = "read" /\ sampler'.pc = "struct" /\ sampler'.sent = sampler.sent
      BY <1>1, <2>2 DEF ReadCluster, TypeOK
    <3> QED
      BY <1>1, <1>2, <2>1, <3>1, <3>2 DEF PhaseInv, Reading
  <2>3. CASE CastLine
    <3>1. /\ sampler.pc \in {"struct", "center"} /\ sampler'.pc \in {"center", "read"}
          /\ sampler'.sent = sampler.sent /\ root' = root
      BY <1>1, <2>3 DEF CastLine, TypeOK
    <3> QED
      BY <1>1, <1>2, <2>1, <3>1 DEF PhaseInv, Reading, M
  <2>4. CASE ReadExample
    <3>1. sampler.pc = "read" /\ sampler'.pc = "read" /\ sampler'.sent = sampler.sent
      BY <1>1, <2>4 DEF ReadExample, TypeOK
    <3>2. M >= MinLines /\ M' = M
      BY <2>4, ReadExampleRoot DEF ReadExample, M, Inv
    <3> QED
      BY <1>1, <1>2, <2>1, <3>1, <3>2 DEF PhaseInv, Reading
  <2>5. CASE EndOfInput
    <3>1. /\ sampler.pc = "read" /\ sampler'.pc = "eos" /\ sampler'.sent = sampler.sent
          /\ root' = root
      BY <1>1, <2>5 DEF EndOfInput, TypeOK
    <3> QED
      BY <1>1, <1>2, <2>1, <3>1 DEF PhaseInv, Reading, M
  <2>6. CASE SendEos
    <3>1. /\ sampler.pc = "eos" /\ sampler'.sent = sampler.sent + 1 /\ root' = root
          /\ sampler'.pc = IF sampler.sent + 1 = Streams THEN "done" ELSE "eos"
      BY <1>1, <2>6 DEF SendEos, TypeOK
    <3> QED
      BY <1>1, <1>2, <2>1, <3>1 DEF PhaseInv, Reading, M
  <2> QED
    BY <1>3, <2>2, <2>3, <2>4, <2>5, <2>6 DEF Sampler
<1>4. CASE Detector
  <2>1. sampler' = sampler
    BY <1>4 DEF Detector, TakePacket, TakeExample, CastNew, PrintUnknown, EndOfStreams
  <2>2. root'.st.nextId = root.st.nextId
    BY <1>4, TakeCases DEF Detector, TakePacket, CastNew, PrintUnknown, EndOfStreams
  <2>3. Advanced.pc = "take" /\ Advanced.ended = detector.ended
        /\ (Advanced.packet # <<>> => detector.packet # <<>>)
    BY <1>1 DEF Advanced, TypeOK
  <2> SUFFICES /\ detector'.pc # "failed"
               /\ detector'.ended > 0 => ~ Reading
               /\ detector'.pc = "done" => detector'.ended = Streams
               /\ detector'.packet # <<>> => detector'.ended < Streams
    BY <1>1, <2>1, <2>2, Constants DEF PhaseInv, Reading
  <2>4. CASE TakePacket
    BY <1>1, <1>2, <2>4 DEF TakePacket, PhaseInv, TypeOK
  <2>5. CASE TakeExample
    <3>1. detector.pc = "take" /\ detector.packet # <<>>
      BY <2>5, TakeCases
    <3>2. CASE TakeMarker
      <4>1. ~ Reading /\ detector.at = Len(detector.packet)
        BY <3>1, <3>2, AtExample DEF TakeMarker
      <4>2. Advanced.packet = <<>>
        BY <1>1, <4>1 DEF Advanced, TypeOK
      <4>3. /\ detector'.pc = Advanced.pc /\ detector'.packet = Advanced.packet
        BY <3>2 DEF TakeMarker, Advanced
      <4> QED
        BY <2>3, <4>1, <4>2, <4>3
    <3>3. CASE TakeKnown
      BY <1>1, <2>3, <3>1, <3>3 DEF TakeKnown, PhaseInv
    <3>4. CASE TakeUnknown
      BY <1>1, <3>1, <3>4 DEF TakeUnknown, PhaseInv, TypeOK
    <3> QED
      BY <2>5, <3>2, <3>3, <3>4, TakeCases
  <2>6. CASE CastNew
    BY <1>1, <1>2, <2>6 DEF CastNew, PhaseInv, TypeOK
  <2>7. CASE PrintUnknown
    BY <1>1, <2>3, <2>7 DEF PrintUnknown, PhaseInv
  <2>8. CASE EndOfStreams
    BY <1>1, <1>2, <2>8 DEF EndOfStreams, PhaseInv, TypeOK
  <2> QED
    BY <1>4, <2>4, <2>5, <2>6, <2>7, <2>8 DEF Detector
<1>5. CASE UNCHANGED rootVars
  BY <1>1, <1>5 DEF rootVars, PhaseInv, Reading, M
<1>6. \/ Sampler \/ Detector \/ UNCHANGED rootVars
  BY DEF Next, Receiver, HearStruct, HearCenter, Add, Post, Classifier, Receive, ForwardEos,
         Check, Wake, IdentifyNext, Terminated, vars
<1> QED
  BY <1>3, <1>4, <1>5, <1>6

-----------------------------------------------------------------------------
\* Packets in a queue, and the one in a thread's hands.
AllGood(q, n, ids) == \A k \in DOMAIN q : Good(q[k], n, ids)

LEMMA QueueGood ==
  ASSUME NEW q \in Seq(Packet), NEW n, NEW ids, AllGood(q, n, ids)
  PROVE  /\ \A p \in Packet : Good(p, n, ids) => AllGood(Append(q, p), n, ids)
         /\ q # <<>> => /\ Head(q) \in Packet /\ Good(Head(q), n, ids)
                        /\ Tail(q) \in Seq(Packet) /\ AllGood(Tail(q), n, ids)
<1>1. ASSUME NEW p \in Packet, Good(p, n, ids)
      PROVE  AllGood(Append(q, p), n, ids)
  <2> SUFFICES ASSUME NEW k \in DOMAIN Append(q, p)
               PROVE  Good(Append(q, p)[k], n, ids)
    BY DEF AllGood
  <2>1. CASE k = Len(q) + 1
    BY <1>1, <2>1
  <2>2. CASE k \in DOMAIN q
    BY <2>2 DEF AllGood
  <2> QED
    BY <2>1, <2>2
<1>2. ASSUME q # <<>>
      PROVE  /\ Head(q) \in Packet /\ Good(Head(q), n, ids)
             /\ Tail(q) \in Seq(Packet) /\ AllGood(Tail(q), n, ids)
  <2>1. 1 \in DOMAIN q /\ Head(q) = q[1] /\ Head(q) \in Packet /\ Tail(q) \in Seq(Packet)
    BY <1>2
  <2>2. \A k \in DOMAIN Tail(q) : k + 1 \in DOMAIN q /\ Tail(q)[k] = q[k + 1]
    BY <1>2
  <2> QED
    BY <2>1, <2>2 DEF AllGood
<1> QED
  BY <1>1, <1>2

\* The sampler's packet grows by the next example.
LEMMA DataAppend ==
  ASSUME NEW p \in Packet, NEW n \in Nat, p # <<>> => Data(p, n)
  PROVE  LET q == Append(p, [id |-> n, label |-> StackLabel])
         IN q \in Packet /\ Data(q, n + 1)
<1> DEFINE e == [id |-> n, label |-> StackLabel]
           q == Append(p, e)
<1>1. e \in Example /\ e.id = n /\ e.label # Eos
  BY Constants DEF Example
<1>2. p \in Seq(Example) /\ Len(p) \in Nat /\ DOMAIN p = 1..Len(p) /\ \A i \in DOMAIN p : p[i].id \in Nat
  BY PacketType
<1> HIDE DEF e
<1>3. /\ q \in Seq(Example) /\ Len(q) = Len(p) + 1 /\ DOMAIN q = 1..(Len(p) + 1)
      /\ \A i \in DOMAIN p : q[i] = p[i]
      /\ q[Len(p) + 1] = e
  BY <1>1, <1>2
<1> HIDE DEF q
<1>4. q # <<>>
  BY <1>2, <1>3
<1>5. \A i \in DOMAIN p : p[i].label # Eos /\ p[i].id < n
  BY <1>2 DEF Data
<1>6. \A i \in DOMAIN q : q[i].label # Eos /\ q[i].id < n + 1
  BY <1>1, <1>2, <1>3, <1>5
<1>7. \A i, j \in DOMAIN q : q[i].id = q[j].id => i = j
  <2>1. \A i, j \in DOMAIN p : p[i].id = p[j].id => i = j
    BY <1>2 DEF Data
  <2> QED
    BY <1>1, <1>2, <1>3, <1>5, <2>1
<1>8. q \in Packet /\ Data(q, n + 1)
  BY <1>3, <1>4, <1>6, <1>7 DEF Data, Packet
<1> QED
  BY <1>8 DEF q, e

LEMMA MarkerType ==
  ASSUME NEW id \in Nat
  PROVE  LET p == <<[id |-> id, label |-> Eos]>>
         IN p \in Packet /\ IsMarker(p) /\ p[1].id = id
BY Constants DEF Packet, Example, IsMarker

LEMMA SamplerPacketNext ==
  ASSUME Inv, [Next]_vars
  PROVE  sampler'.packet # <<>> =>
           Data(sampler'.packet, root'.st.nextId) /\ sampler'.pc = "read"
<1>1. /\ TypeOK /\ sampler.packet \in Packet
      /\ sampler.packet # <<>> => Data(sampler.packet, root.st.nextId) /\ sampler.pc = "read"
      /\ root.st.nextId \in Nat
  BY StepType, FineKept DEF Inv, PacketInv
<1>2. Data(sampler.packet, root.st.nextId) => Data(sampler.packet, root'.st.nextId)
  BY <1>1, FineKept
<1>3. CASE Sampler
  <2>1. CASE ReadCluster
    <3>1. sampler.packet = <<>>
      BY <1>1, <2>1, DataNotMarker DEF ReadCluster
    <3> QED
      BY <1>1, <2>1, <3>1 DEF ReadCluster, TypeOK
  <2>2. CASE CastLine
    BY <1>1, <2>2 DEF CastLine, TypeOK
  <2>3. CASE ReadExample
    <3> DEFINE p == Append(sampler.packet, [id |-> root.st.nextId, label |-> StackLabel])
    <3>1. Data(p, root.st.nextId + 1)
      BY <1>1, DataAppend
    <3>2. sampler'.packet = p \/ sampler'.packet = <<>>
      BY <1>1, <2>3 DEF ReadExample, TypeOK
    <3>3. root'.st.nextId = root.st.nextId + 1 /\ sampler'.pc = "read"
      BY <1>1, <2>3, ReadExampleRoot DEF ReadExample, TypeOK, Inv
    <3> QED
      BY <3>1, <3>2, <3>3
  <2>4. CASE EndOfInput
    BY <1>1, <2>4 DEF EndOfInput, TypeOK
  <2>5. CASE SendEos
    BY <1>1, <2>5 DEF SendEos, TypeOK
  <2> QED
    BY <1>3, <2>1, <2>2, <2>3, <2>4, <2>5 DEF Sampler
<1>4. CASE sampler' = sampler
  BY <1>1, <1>2, <1>4
<1>5. Sampler \/ sampler' = sampler
  BY DEF Next, Detector, TakePacket, TakeExample, CastNew, PrintUnknown, EndOfStreams,
         Receiver, HearStruct, HearCenter, Add, Post, Classifier, Receive, ForwardEos,
         Check, Wake, IdentifyNext, Terminated, vars, rootVars
<1> QED
  BY <1>3, <1>4, <1>5

\* What the sampler sends.
SentPacket(l, p) ==
  /\ examples' = [examples EXCEPT ![l] = Append(@, p)]
  /\ sampler'.packet = <<>>
  /\ \/ /\ ReadExample
        /\ p = Append(sampler.packet, [id |-> root.st.nextId, label |-> StackLabel])
        /\ sampler'.sent = sampler.sent
     \/ /\ EndOfInput /\ p = sampler.packet /\ p # <<>>
        /\ sampler'.sent = sampler.sent
     \/ /\ SendEos
        /\ sampler.packet = <<>>
        /\ l = (sampler.sent \div NClassifiers) + 1
        /\ sampler'.sent = sampler.sent + 1
        /\ IsMarker(p) /\ p[1].id \in EndIds

LEMMA SamplerSends ==
  ASSUME Inv, Sampler
  PROVE  \/ examples' = examples /\ (ReadCluster \/ CastLine \/ ReadExample \/ EndOfInput)
         \/ \E l \in Leaves, p \in Packet : /\ SentPacket(l, p)
                                            /\ Good(p, root'.st.nextId, EndIds')
<1>1. /\ TypeOK /\ sampler.packet \in Packet
      /\ sampler.packet # <<>> => Data(sampler.packet, root.st.nextId) /\ sampler.pc = "read"
      /\ root.st.nextId \in Nat /\ root'.st.nextId \in Nat
      /\ root.st.nextId <= root'.st.nextId /\ EndIds \subseteq EndIds'
      /\ NextDest \in Leaves
  BY StepType, FineKept, RootNext, DestType DEF Inv, PacketInv, Next, TypeOK
<1>2. CASE ReadCluster \/ CastLine
  BY <1>2 DEF ReadCluster, CastLine, network
<1>3. CASE ReadExample
  <2> DEFINE p == Append(sampler.packet, [id |-> root.st.nextId, label |-> StackLabel])
  <2>1. p \in Packet /\ Data(p, root.st.nextId + 1)
    BY <1>1, DataAppend
  <2>2. root'.st.nextId = root.st.nextId + 1
    BY <1>3, ReadExampleRoot DEF Inv
  <2>3. Good(p, root'.st.nextId, EndIds')
    BY <2>1, <2>2 DEF Good
  <2>4. \/ examples' = examples
        \/ /\ sampler' = [sampler EXCEPT !.packet = <<>>, !.dest = NextDest]
           /\ examples' = [examples EXCEPT ![NextDest] = Append(@, p)]
    BY <1>3 DEF ReadExample, SendExamples
  <2> HIDE DEF p
  <2>5. examples' = examples \/ SentPacket(NextDest, p)
    BY <1>1, <1>3, <2>4 DEF SentPacket, p, TypeOK
  <2> QED
    BY <1>1, <1>3, <2>1, <2>3, <2>5
<1>4. CASE EndOfInput
  <2>1. \/ examples' = examples
        \/ /\ sampler' = [sampler EXCEPT !.pc = "eos", !.packet = <<>>, !.dest = NextDest]
           /\ examples' = [examples EXCEPT ![NextDest] = Append(@, sampler.packet)]
           /\ sampler.packet # <<>>
    BY <1>4 DEF EndOfInput, SendExamples
  <2>2. sampler.packet # <<>> => Good(sampler.packet, root'.st.nextId, EndIds')
    <3>1. Data(sampler.packet, root.st.nextId) => Data(sampler.packet, root'.st.nextId)
      BY <1>1, FineKept DEF Next
    <3> QED
      BY <1>1, <3>1 DEF Good
  <2>3. \/ examples' = examples
        \/ SentPacket(NextDest, sampler.packet) /\ sampler.packet # <<>>
    BY <1>1, <1>4, <2>1 DEF SentPacket, TypeOK
  <2> QED
    BY <1>1, <1>4, <2>2, <2>3
<1>5. CASE SendEos
  <2> DEFINE l == (sampler.sent \div NClassifiers) + 1
  <2>1. PICK id \in MarkerIds(root) :
          examples' = [examples EXCEPT ![l] = Append(@, <<[id |-> id, label |-> Eos]>>)]
    BY <1>5 DEF SendEos
  <2> DEFINE p == <<[id |-> id, label |-> Eos]>>
  <2>2. id \in EndIds
    BY <1>5, <2>1 DEF SendEos, EndIds, Reading
  <2>3. id \in Nat
    BY <2>1, MarkerIdsType DEF Inv, RootInv
  <2>4. p \in Packet /\ IsMarker(p) /\ p[1].id = id
    BY <2>3, MarkerType
  <2>5. Good(p, root'.st.nextId, EndIds')
    BY <1>1, <2>2, <2>4 DEF Good
  <2>6. l \in Leaves
    BY <1>1, <1>5, LeafOf, StepType DEF SendEos, Inv, PhaseInv
  <2> HIDE DEF p
  <2>7. sampler.packet = <<>> /\ sampler' = [sampler EXCEPT !.sent = @ + 1,
                                !.pc = IF sampler.sent + 1 = Streams
                                         THEN "done" ELSE "eos"]
    BY <1>1, <1>5 DEF SendEos
  <2>8. examples' = [examples EXCEPT ![l] = Append(@, p)]
    BY <2>1 DEF p
  <2>9. SentPacket(l, p)
    <3>1. sampler'.packet = <<>> /\ sampler'.sent = sampler.sent + 1
      BY <1>1, <2>7 DEF TypeOK
    <3> QED
      BY <1>5, <2>2, <2>4, <2>7, <2>8, <3>1 DEF SentPacket
  <2> QED
    BY <2>4, <2>5, <2>6, <2>9
<1> QED
  BY <1>2, <1>3, <1>4, <1>5 DEF Sampler

\* No leaf has a cluster labelled Eos.
LEMMA LeafLabels ==
  ASSUME Inv, NEW l \in Leaves, NEW i \in 1..N(l)
  PROVE  leaf[l].model[i].label # Eos
<1>1. /\ M \in Nat /\ N(l) \in Nat /\ N(l) <= M
      /\ SameCluster(leaf[l].model[i], i - 1, root.st.model)
  BY StepType, RootType DEF Inv, CastInv, LeafCasts, RootInv
<1>2. i - 1 < M /\ (i - 1) + 1 = i /\ i \in 1..M
  BY <1>1
<1>3. leaf[l].model[i].label = root.st.model[i].label
  BY <1>1, <1>2 DEF SameCluster, M
<1> QED
  BY <1>2, <1>3 DEF Inv, RootInv

\* p is the classifier's packet with one more label, not Eos.  It goes back, or
\* the classifier turns to the next example.
Labelled(t, p) ==
  /\ classifier[t].pc = "identify"
  /\ Data(classifier[t].packet, root.st.nextId)
  /\ Data(p, root.st.nextId)
  /\ DOMAIN p = DOMAIN classifier[t].packet
  /\ \A i \in DOMAIN p : p[i].id = classifier[t].packet[i].id
  /\ \/ /\ results' = [results EXCEPT ![t] = Append(@, p)]
        /\ classifier' = [classifier EXCEPT ![t] =
                            [pc |-> "receive", packet |-> <<>>, at |-> 1]]
     \/ /\ results' = results
        /\ classifier[t].at + 1 \in DOMAIN p
        /\ classifier' = [classifier EXCEPT ![t] =
                            [pc |-> "check", packet |-> p, at |-> classifier[t].at + 1]]

LEMMA IdentifyLabels ==
  ASSUME Inv, NEW t \in Threads, IdentifyNext(t)
  PROVE  /\ \E p \in Packet : Labelled(t, p)
         /\ \E s \in MinasState : /\ leaf' = [leaf EXCEPT ![t[1]] = s]
                                  /\ Len(s.model) = N(t[1])
                                  /\ SameClusters(leaf[t[1]].model, s.model)
<1> DEFINE me == classifier[t]
           e == me.packet[me.at]
<1>1. PICK match \in Identify(leaf[t[1]], e.id) :
        LET packet == [me.packet EXCEPT ![me.at].label = match.label]
        IN /\ leaf' = [leaf EXCEPT ![t[1]] = match.state]
           /\ IF me.at = Len(me.packet)
                THEN /\ Answers(t, packet)
                     /\ classifier' = [classifier EXCEPT ![t] =
                          [pc |-> "receive", packet |-> <<>>, at |-> 1]]
                ELSE /\ classifier' = [classifier EXCEPT ![t] =
                          [pc |-> "check", packet |-> packet, at |-> me.at + 1]]
                     /\ UNCHANGED results
  BY DEF IdentifyNext
<1> DEFINE p == [me.packet EXCEPT ![me.at].label = match.label]
<1>2. me.pc = "identify" /\ me.packet \in Packet /\ me.at \in Nat /\ t[1] \in Leaves
      /\ leaf[t[1]] \in MinasState
  BY StepType, ThreadType DEF IdentifyNext, Inv
<1>3. me.at \in DOMAIN me.packet /\ Data(me.packet, root.st.nextId)
  BY <1>2 DEF Inv, PacketInv, ClassifierInv
<1>4. e.id \in Nat
  BY <1>2, <1>3, PacketType
<1>5. /\ match.state \in MinasState /\ SameBuffer(leaf[t[1]], match.state)
      /\ SameClusters(leaf[t[1]].model, match.state.model)
  BY <1>1, <1>2, <1>4, IdentifyType, IdentifyModel
<1>6. match.label # Eos /\ match.label \in Nat
  <2>1. match.label = Unk \/ \E i \in 1..N(t[1]) : match.label = leaf[t[1]].model[i].label
    BY <1>1, <1>2, <1>4, IdentifyLabel DEF N
  <2>2. \A i \in 1..N(t[1]) : leaf[t[1]].model[i].label \in Nat
    <3>1. \A i \in 1..N(t[1]) : leaf[t[1]].model[i] \in Cluster
      BY <1>2 DEF MinasState, N
    <3> QED
      BY <3>1 DEF Cluster
  <2> QED
    BY <1>2, <2>1, <2>2, LeafLabels, Constants
<1>7. /\ p \in Packet /\ Len(p) = Len(me.packet) /\ DOMAIN p = DOMAIN me.packet
      /\ \A i \in DOMAIN me.packet : p[i].id = me.packet[i].id
      /\ \A i \in DOMAIN me.packet : i # me.at => p[i] = me.packet[i]
      /\ p[me.at].label = match.label
  <2>1. me.packet \in Packet /\ me.at \in DOMAIN me.packet /\ match.label \in Nat
    BY <1>2, <1>3, <1>6
  <2> HIDE DEF me
  <2> QED
    BY <2>1, Relabelled
<1>8. \/ /\ results' = [results EXCEPT ![t] = Append(@, p)]
         /\ classifier' = [classifier EXCEPT ![t] =
                             [pc |-> "receive", packet |-> <<>>, at |-> 1]]
      \/ /\ results' = results
         /\ me.at # Len(me.packet)
         /\ classifier' = [classifier EXCEPT ![t] =
                             [pc |-> "check", packet |-> p, at |-> me.at + 1]]
  BY <1>1 DEF Answers
<1> HIDE DEF p
<1>9. Data(p, root.st.nextId)
  BY <1>3, <1>6, <1>7, DataNotMarker DEF Data
<1>10. me.at # Len(me.packet) => me.at + 1 \in DOMAIN p
  BY <1>2, <1>3, <1>7, PacketType
<1>11. Labelled(t, p)
  BY <1>2, <1>3, <1>7, <1>8, <1>9, <1>10 DEF Labelled
<1>12. leaf' = [leaf EXCEPT ![t[1]] = match.state] /\ Len(match.state.model) = N(t[1])
  BY <1>1, <1>5 DEF SameBuffer, N
<1> QED
  BY <1>5, <1>7, <1>11, <1>12

\* An end marker goes on.
LEMMA EosForwarded ==
  ASSUME Inv, NEW t \in Threads, ForwardEos(t)
  PROVE  LET p == classifier[t].packet
         IN /\ p \in Packet /\ classifier[t].pc = "check"
            /\ IsMarker(p) /\ p[1].id \in EndIds /\ ~ Data(p, root.st.nextId)
            /\ results' = [results EXCEPT ![t] = Append(@, p)]
            /\ classifier' = [classifier EXCEPT ![t] =
                                [pc |-> "done", packet |-> <<>>, at |-> 1]]
<1>1. /\ classifier[t].packet \in Packet /\ classifier[t].pc = "check"
      /\ Fine(classifier[t].packet) /\ classifier[t].at \in DOMAIN classifier[t].packet
  BY StepType DEF ForwardEos, Inv, PacketInv, ClassifierInv
<1>2. classifier[t].packet[classifier[t].at].label = Eos
  BY DEF ForwardEos
<1>3. /\ IsMarker(classifier[t].packet) /\ classifier[t].packet[1].id \in EndIds
      /\ ~ Data(classifier[t].packet, root.st.nextId)
  BY <1>1, <1>2, GoodCases DEF Fine
<1> QED
  BY <1>1, <1>3 DEF ForwardEos, Answers

\* Waiting for the model changes neither the packet nor the place in it.
LEMMA ChecksOn ==
  ASSUME Inv, NEW t \in Threads, Check(t) \/ Wake(t)
  PROVE  /\ classifier[t].pc \in {"check", "wait"}
         /\ Data(classifier[t].packet, root.st.nextId)
         /\ \E pc \in {"check", "wait", "identify"} :
              classifier' = [classifier EXCEPT ![t].pc = pc]
         /\ results' = results /\ examples' = examples
<1>1. /\ classifier[t].packet \in Packet /\ classifier[t].pc \in {"check", "wait"}
      /\ Fine(classifier[t].packet) /\ classifier[t].at \in DOMAIN classifier[t].packet
      /\ classifier[t].pc # "check" => Data(classifier[t].packet, root.st.nextId)
  BY StepType DEF Check, Wake, Inv, PacketInv, ClassifierInv
<1>2. Data(classifier[t].packet, root.st.nextId)
  BY <1>1, GoodCases DEF Fine, Check, Wake
<1> QED
  BY <1>1, <1>2 DEF Check, Wake, network

\* Steps that leave a part of the state alone.
LEMMA ExamplesSame ==
  ASSUME Inv, [Next]_vars, ~ Sampler, ~ (\E t \in Threads : Receive(t))
  PROVE  examples' = examples
BY ChecksOn DEF Next, Detector, TakePacket, TakeExample, CastNew, PrintUnknown, EndOfStreams,
       Receiver, HearStruct, HearCenter, Add, Post, Classifier, ForwardEos,
       IdentifyNext, Terminated, vars, network

LEMMA ResultsSame ==
  ASSUME Inv, [Next]_vars, ~ TakePacket,
         ~ (\E t \in Threads : ForwardEos(t) \/ IdentifyNext(t))
  PROVE  results' = results
BY ChecksOn DEF Next, Sampler, ReadCluster, CastLine, ReadExample, EndOfInput, SendEos,
       Detector, TakeExample, CastNew, PrintUnknown, EndOfStreams,
       Receiver, HearStruct, HearCenter, Add, Post, Classifier, Receive, Terminated,
       vars, network

LEMMA ClassifierSame ==
  ASSUME [Next]_vars, ~ (\E t \in Threads : Classifier(t))
  PROVE  classifier' = classifier
BY DEF Next, Sampler, ReadCluster, CastLine, ReadExample, EndOfInput, SendEos,
       Detector, TakePacket, TakeExample, CastNew, PrintUnknown, EndOfStreams,
       Receiver, HearStruct, HearCenter, Add, Post, Terminated, vars, leafVars

LEMMA DetectorSame ==
  ASSUME [Next]_vars, ~ Detector
  PROVE  detector' = detector /\ answered' = answered
BY DEF Next, Sampler, ReadCluster, CastLine, ReadExample, EndOfInput, SendEos,
       Receiver, HearStruct, HearCenter, Add, Post, Classifier, Receive, ForwardEos,
       Check, Wake, IdentifyNext, Terminated, vars, rootVars

LEMMA SamplerSame ==
  ASSUME [Next]_vars, ~ Sampler
  PROVE  sampler' = sampler
BY DEF Next, Detector, TakePacket, TakeExample, CastNew, PrintUnknown, EndOfStreams,
       Receiver, HearStruct, HearCenter, Add, Post, Classifier, Receive, ForwardEos,
       Check, Wake, IdentifyNext, Terminated, vars, rootVars

LEMMA InitPacket ==
  ASSUME Init
  PROVE  PacketInv
<1>1. /\ sampler.packet = <<>> /\ detector.packet = <<>> /\ detector.pc = "take"
      /\ \A t \in Threads : classifier[t].packet = <<>> /\ classifier[t].pc = "receive"
      /\ \A l \in Leaves : examples[l] = <<>>
      /\ \A t \in Threads : results[t] = <<>>
  BY DEF Init
<1> QED
  BY <1>1 DEF PacketInv, ClassifierInv, DetectorInv

LEMMA ExamplesGood ==
  ASSUME Inv, [Next]_vars
  PROVE  \A l \in Leaves : AllGood(examples'[l], root'.st.nextId, EndIds')
<1>1. /\ examples \in [Leaves -> Seq(Packet)]
      /\ \A l \in Leaves : examples[l] \in Seq(Packet)
      /\ \A l \in Leaves : AllGood(examples[l], root'.st.nextId, EndIds')
  <2>1. \A l \in Leaves : examples[l] \in Seq(Packet) /\ AllGood(examples[l], root.st.nextId, EndIds)
    BY StepType DEF Inv, PacketInv, AllGood, Fine
  <2>2. \A l \in Leaves : \A n \in DOMAIN examples[l] : examples[l][n] \in Packet
    BY <2>1
  <2> QED
    BY <2>1, <2>2, FineKept DEF AllGood, Fine, Inv, TypeOK
<1>2. CASE Sampler
  <2>1. CASE examples' = examples
    BY <1>1, <2>1
  <2>2. CASE \E l \in Leaves, p \in Packet : SentPacket(l, p) /\ Good(p, root'.st.nextId, EndIds')
    <3>1. PICK l \in Leaves, p \in Packet : SentPacket(l, p) /\ Good(p, root'.st.nextId, EndIds')
      BY <2>2
    <3>2. /\ examples'[l] = Append(examples[l], p)
          /\ \A k \in Leaves : k # l => examples'[k] = examples[k]
      BY <1>1, <3>1, PutIn DEF SentPacket
    <3>3. AllGood(Append(examples[l], p), root'.st.nextId, EndIds')
      BY <1>1, <3>1, QueueGood
    <3> QED
      BY <1>1, <3>2, <3>3
  <2> QED
    BY <1>2, <2>1, <2>2, SamplerSends
<1>3. CASE \E t \in Threads : Receive(t)
  <2>1. PICK t \in Threads : Receive(t)
    BY <1>3
  <2>2. t[1] \in Leaves /\ examples[t[1]] # <<>> /\ examples' = [examples EXCEPT ![t[1]] = Tail(@)]
    BY <2>1, ThreadType DEF Receive
  <2>3. /\ examples'[t[1]] = Tail(examples[t[1]])
        /\ \A k \in Leaves : k # t[1] => examples'[k] = examples[k]
    BY <1>1, <2>2, TakenFrom
  <2>4. AllGood(Tail(examples[t[1]]), root'.st.nextId, EndIds')
    BY <1>1, <2>2, QueueGood
  <2> QED
    BY <1>1, <2>3, <2>4
<1> QED
  BY <1>1, <1>2, <1>3, ExamplesSame

LEMMA ResultsGood ==
  ASSUME Inv, [Next]_vars
  PROVE  \A t \in Threads : AllGood(results'[t], root'.st.nextId, EndIds')
<1>1. /\ results \in [Threads -> Seq(Packet)]
      /\ \A t \in Threads : results[t] \in Seq(Packet)
      /\ \A t \in Threads : AllGood(results[t], root'.st.nextId, EndIds')
  <2>1. \A t \in Threads : results[t] \in Seq(Packet) /\ AllGood(results[t], root.st.nextId, EndIds)
    BY StepType DEF Inv, PacketInv, AllGood, Fine
  <2>2. \A t \in Threads : \A n \in DOMAIN results[t] : results[t][n] \in Packet
    BY <2>1
  <2> QED
    BY <2>1, <2>2, FineKept DEF AllGood, Fine, Inv, TypeOK
<1>2. ASSUME NEW t \in Threads, NEW p \in Packet, results' = [results EXCEPT ![t] = Append(@, p)],
             Data(p, root.st.nextId) \/ (IsMarker(p) /\ p[1].id \in EndIds)
      PROVE  \A u \in Threads : AllGood(results'[u], root'.st.nextId, EndIds')
  <2>1. /\ results'[t] = Append(results[t], p)
        /\ \A u \in Threads : u # t => results'[u] = results[u]
    BY <1>1, <1>2, PutIn
  <2>2. Good(p, root'.st.nextId, EndIds')
    BY <1>2, FineKept DEF Fine, Good
  <2>3. AllGood(Append(results[t], p), root'.st.nextId, EndIds')
    BY <1>1, <2>2, QueueGood
  <2> QED
    BY <1>1, <2>1, <2>3
<1>3. CASE TakePacket
  <2>1. PICK t \in Threads : results[t] # <<>> /\ results' = [results EXCEPT ![t] = Tail(@)]
    BY <1>3 DEF TakePacket
  <2>2. /\ results'[t] = Tail(results[t])
        /\ \A u \in Threads : u # t => results'[u] = results[u]
    BY <1>1, <2>1, TakenFrom
  <2>3. AllGood(Tail(results[t]), root'.st.nextId, EndIds')
    BY <1>1, <2>1, QueueGood
  <2> QED
    BY <1>1, <2>2, <2>3
<1>4. CASE \E t \in Threads : ForwardEos(t)
  BY <1>2, <1>4, EosForwarded
<1>5. CASE \E t \in Threads : IdentifyNext(t)
  <2>1. PICK t \in Threads : IdentifyNext(t)
    BY <1>5
  <2>2. PICK p \in Packet : Labelled(t, p)
    BY <2>1, IdentifyLabels
  <2> QED
    BY <1>1, <1>2, <2>2 DEF Labelled
<1> QED
  BY <1>1, <1>3, <1>4, <1>5, ResultsSame

LEMMA ClassifierNext ==
  ASSUME Inv, [Next]_vars, NEW u \in Threads
  PROVE  ClassifierInv(u)'
<1>1. /\ classifier[u].packet \in Packet /\ ClassifierInv(u)
      /\ classifier \in [Threads -> [pc : {"receive", "check", "wait", "identify", "done"},
                                     packet : Packet, at : Nat \ {0}]]
  BY StepType DEF Inv, PacketInv, TypeOK
<1>2. CASE classifier'[u] = classifier[u]
  BY <1>1, <1>2, FineKept DEF ClassifierInv, Fine
<1>3. CASE \E t \in Threads : Classifier(t) /\ classifier'[u] # classifier[u]
  <2>1. PICK t \in Threads : Classifier(t) /\ classifier'[u] # classifier[u]
    BY <1>3
  <2>2. t = u
    BY <1>1, <2>1 DEF Classifier, Receive, ForwardEos, Check, Wake, IdentifyNext
  <2>3. CASE Receive(u)
    <3>1. u[1] \in Leaves /\ examples[u[1]] \in Seq(Packet) /\ examples[u[1]] # <<>>
      BY <2>3, ThreadType, StepType DEF Receive, Inv
    <3>2. Head(examples[u[1]]) \in Packet /\ Fine(Head(examples[u[1]]))
      BY <3>1, QueueGood DEF Inv, PacketInv, AllGood, Fine
    <3> DEFINE p == Head(examples[u[1]])
    <3>3. classifier'[u] = [pc |-> "check", packet |-> p, at |-> 1]
      BY <1>1, <2>3 DEF Receive
    <3> HIDE DEF p
    <3>4. 1 \in DOMAIN p
      <4>1. p # <<>> /\ p \in Seq(Example) /\ DOMAIN p = 1..Len(p) /\ Len(p) \in Nat
        BY <3>2, PacketType DEF p, Fine, Good, Data, IsMarker
      <4> QED
        BY <4>1
    <3> QED
      BY <3>2, <3>3, <3>4, FineKept DEF ClassifierInv, Fine, p
  <2>4. CASE ForwardEos(u)
    BY <1>1, <2>4 DEF ForwardEos, ClassifierInv
  <2>5. CASE Check(u) \/ Wake(u)
    <3>1. PICK pc \in {"check", "wait", "identify"} : classifier' = [classifier EXCEPT ![u].pc = pc]
      BY <2>5, ChecksOn
    <3>2. /\ classifier[u].pc \in {"check", "wait"}
          /\ Data(classifier[u].packet, root.st.nextId)
      BY <2>5, ChecksOn
    <3>3. /\ classifier'[u].pc = pc /\ classifier'[u].packet = classifier[u].packet
          /\ classifier'[u].at = classifier[u].at
      BY <1>1, <3>1
    <3>4. Data(classifier[u].packet, root'.st.nextId)
      BY <1>1, <3>2, FineKept
    <3> QED
      BY <1>1, <3>1, <3>2, <3>3, <3>4 DEF ClassifierInv, Fine, Good
  <2>6. CASE IdentifyNext(u)
    <3>1. PICK p \in Packet : Labelled(u, p)
      BY <2>6, IdentifyLabels
    <3>2. \/ classifier'[u] = [pc |-> "receive", packet |-> <<>>, at |-> 1]
          \/ /\ classifier[u].at + 1 \in DOMAIN p
             /\ classifier'[u] = [pc |-> "check", packet |-> p, at |-> classifier[u].at + 1]
      BY <1>1, <3>1 DEF Labelled
    <3>3. Data(p, root'.st.nextId)
      BY <3>1, FineKept DEF Labelled
    <3> QED
      BY <3>2, <3>3 DEF ClassifierInv, Fine, Good
  <2> QED
    BY <2>1, <2>2, <2>3, <2>4, <2>5, <2>6 DEF Classifier
<1> QED
  BY <1>2, <1>3, ClassifierSame

\* The detector prints the example it is at and goes to the next.
LEMMA PrintsOne ==
  ASSUME Inv, [Next]_vars, detector.packet # <<>>, root'.st.nextId = root.st.nextId,
         Data(detector.packet, root.st.nextId),
         detector' = Advanced,
         answered' = answered \cup {detector.packet[detector.at].id}
  PROVE  DetectorInv'
<1> DEFINE p == detector.packet
<1>1. /\ p \in Packet /\ detector.at \in DOMAIN p /\ TypeOK /\ detector.at \in Nat
      /\ \A i \in DOMAIN p : p[i].id \in answered <=> i < detector.at
      /\ Len(p) \in Nat /\ DOMAIN p = 1..Len(p)
  BY StepType, PacketType DEF Inv, PacketInv, DetectorInv
<1>2. CASE detector.at = Len(p)
  BY <1>1, <1>2 DEF Advanced, TypeOK, DetectorInv
<1>3. CASE detector.at # Len(p)
  <2>1. detector'.packet = p /\ detector'.at = detector.at + 1 /\ detector'.pc = "take"
    BY <1>1, <1>3 DEF Advanced, TypeOK
  <2>2. detector.at + 1 \in DOMAIN p
    BY <1>1, <1>3
  <2>3. \A i, j \in DOMAIN p : p[i].id = p[j].id => i = j
    BY DEF Data
  <2>4. \A i \in DOMAIN p : p[i].id \in answered' <=> i < detector.at + 1
    BY <1>1, <2>3
  <2>5. Good(p, root'.st.nextId, EndIds') /\ p # <<>>
    BY DEF Good
  <2> HIDE DEF p
  <2> QED
    BY <2>1, <2>2, <2>4, <2>5 DEF DetectorInv, Fine
<1> QED
  BY <1>2, <1>3

LEMMA DetectorNext ==
  ASSUME Inv, [Next]_vars
  PROVE  DetectorInv'
<1>1. /\ TypeOK /\ PhaseInv /\ DetectorInv /\ detector.packet \in Packet
      /\ M \in Nat /\ M <= M' /\ detector.cast \in Nat
  BY StepType, RootNext, RootType DEF Inv, PacketInv, RootInv, RootKept, Grows, M
<1>2. CASE ~ Detector
  <2>1. detector' = detector /\ answered' = answered
    BY <1>2, DetectorSame
  <2>2. CASE detector.packet = <<>>
    BY <1>1, <2>1, <2>2 DEF DetectorInv
  <2>3. CASE detector.packet # <<>>
    <3>1. Good(detector.packet, root'.st.nextId, EndIds')
      BY <1>1, <2>3, FineKept DEF DetectorInv
    <3>2. Data(detector.packet, root'.st.nextId) => Data(detector.packet, root.st.nextId)
      BY <1>1, <2>3, AtExample, GoodCases, DataNotMarker
    <3>3. M' \in Nat
      BY RootNext DEF RootInv, RootOK, Root, MinasState, M
    <3> QED
      BY <1>1, <2>1, <2>3, <3>1, <3>2, <3>3 DEF DetectorInv, Fine
  <2> QED
    BY <2>2, <2>3
<1>3. CASE TakePacket
  <2>1. PICK t \in Threads :
          /\ results[t] # <<>>
          /\ detector' = [detector EXCEPT !.packet = Head(results[t]), !.at = 1]
    BY <1>3 DEF TakePacket
  <2> DEFINE p == Head(results[t])
  <2>2. results[t] \in Seq(Packet) /\ AllGood(results[t], root.st.nextId, EndIds)
    BY StepType DEF Inv, PacketInv, AllGood, Fine
  <2>3. p \in Packet /\ Fine(p) /\ p = results[t][1] /\ 1 \in DOMAIN results[t]
    BY <2>1, <2>2, QueueGood DEF Fine
  <2>4. detector'.packet = p /\ detector'.at = 1 /\ detector'.pc = "take"
    BY <1>1, <1>3, <2>1 DEF TypeOK, TakePacket
  <2>5. root' = root /\ answered' = answered /\ sampler' = sampler
    BY <1>3 DEF TakePacket
  <2> HIDE DEF p
  <2>6. p # <<>> /\ 1 \in DOMAIN p
    <3>1. p \in Seq(Example) /\ DOMAIN p = 1..Len(p) /\ Len(p) \in Nat
      BY <2>3, PacketType
    <3>2. p # <<>>
      BY <2>3, <3>1 DEF Fine, Good, Data, IsMarker
    <3> QED
      BY <3>1, <3>2
  <2>7. ASSUME Data(p, root.st.nextId), NEW i \in DOMAIN p
        PROVE  p[i].id \notin answered /\ i >= 1
    <3>1. p[i].label # Eos /\ p[i].id \in 0..(root.st.nextId - 1) /\ i >= 1
      BY <2>3, <2>7, PacketType, FineKept DEF Data
    <3>2. p[i].id \in Ids(results[t][1])
      BY <2>3, <3>1 DEF Ids
    <3>3. InResults(p[i].id)
      BY <2>3, <3>2 DEF InResults, InQueue
    <3>4. OneKind(p[i].id)
      BY <3>1 DEF Inv, PlaceInv
    <3> QED
      BY <3>1, <3>3, <3>4 DEF OneKind
  <2>8. Data(p, root.st.nextId) => \A i \in DOMAIN p : p[i].id \in answered <=> i < 1
    <3>1. \A i \in DOMAIN p : i \in Nat
      BY <2>3, PacketType
    <3> QED
      BY <2>7, <3>1
  <2>9. Good(p, root'.st.nextId, EndIds')
    BY <2>3, FineKept
  <2> QED
    BY <2>4, <2>5, <2>6, <2>8, <2>9 DEF DetectorInv, Fine
<1>4. CASE TakeExample
  <2>1. /\ detector.pc = "take" /\ detector.packet # <<>>
        /\ TakeMarker \/ TakeKnown \/ TakeUnknown
        /\ root'.st.nextId = root.st.nextId
    BY <1>4, TakeCases
  <2>2. CASE TakeMarker
    <3>1. detector.at = Len(detector.packet)
      BY <2>1, <2>2, AtExample DEF TakeMarker
    <3>2. detector'.packet = <<>> /\ detector'.pc = "take"
      BY <1>1, <2>2, <3>1 DEF TakeMarker, Advanced, TypeOK
    <3> QED
      BY <3>2 DEF DetectorInv
  <2>3. CASE TakeKnown
    <3>1. Data(detector.packet, root.st.nextId)
      BY <2>1, <2>3, AtExample DEF TakeKnown
    <3> QED
      BY <2>1, <2>3, <3>1, PrintsOne DEF TakeKnown
  <2>4. CASE TakeUnknown
    <3>1. /\ detector'.packet = detector.packet /\ detector'.at = detector.at
          /\ detector'.pc = "struct" /\ detector'.cast = M /\ answered' = answered
          /\ detector.packet[detector.at].label = Unk
      BY <1>1, <2>4 DEF TakeUnknown, TypeOK
    <3>2. Good(detector.packet, root'.st.nextId, EndIds') /\ detector.at \in DOMAIN detector.packet
      BY <1>1, <2>1, FineKept DEF DetectorInv
    <3>3. \A i \in DOMAIN detector.packet : detector.packet[i].id \in answered <=> i < detector.at
      BY <1>1, <2>1, <3>1, AtExample, Constants DEF DetectorInv
    <3> QED
      BY <1>1, <2>1, <3>1, <3>2, <3>3 DEF DetectorInv, Fine
  <2> QED
    BY <2>1, <2>2, <2>3, <2>4
<1>5. CASE CastNew
  <2>1. /\ detector.pc \in {"struct", "center"} /\ root' = root /\ answered' = answered
        /\ sampler' = sampler
        /\ detector.cast < M
        /\ detector'.packet = detector.packet /\ detector'.at = detector.at
        /\ \/ detector'.pc = "center" /\ detector'.cast = detector.cast
           \/ detector'.pc = "struct" /\ detector'.cast = detector.cast + 1
    BY <1>1, <1>5 DEF CastNew, TypeOK, M
  <2>2. M' = M /\ EndIds' = EndIds
    BY <2>1 DEF M, EndIds, Reading
  <2>3. detector.packet # <<>>
    BY <1>1, <2>1 DEF DetectorInv
  <2> QED
    BY <1>1, <2>1, <2>2, <2>3 DEF DetectorInv, Fine
<1>6. CASE PrintUnknown
  <2>1. /\ detector.packet # <<>> /\ detector.packet[detector.at].label = Unk
        /\ root' = root /\ detector' = Advanced
        /\ answered' = answered \cup {detector.packet[detector.at].id}
    BY <1>1, <1>6 DEF PrintUnknown, DetectorInv
  <2>2. Data(detector.packet, root.st.nextId)
    BY <2>1, AtExample, Constants
  <2> QED
    BY <2>1, <2>2, PrintsOne
<1>7. CASE EndOfStreams
  <2>1. detector.packet = <<>>
    BY <1>1, <1>7, Constants DEF EndOfStreams, PhaseInv
  <2>2. detector'.packet = <<>> /\ detector'.pc = "done"
    BY <1>1, <1>7, <2>1 DEF EndOfStreams, TypeOK
  <2> QED
    BY <2>2 DEF DetectorInv
<1> QED
  BY <1>2, <1>3, <1>4, <1>5, <1>6, <1>7 DEF Detector

LEMMA PacketNext ==
  ASSUME Inv, [Next]_vars
  PROVE  PacketInv'
<1>1. sampler'.packet # <<>> => Data(sampler'.packet, root'.st.nextId) /\ sampler'.pc = "read"
  BY SamplerPacketNext
<1>2. \A l \in Leaves : AllGood(examples'[l], root'.st.nextId, EndIds')
  BY ExamplesGood
<1>3. \A t \in Threads : AllGood(results'[t], root'.st.nextId, EndIds')
  BY ResultsGood
<1>4. \A t \in Threads : ClassifierInv(t)'
  BY ClassifierNext
<1>5. DetectorInv'
  BY DetectorNext
<1> QED
  BY <1>1, <1>2, <1>3, <1>4, <1>5 DEF PacketInv, AllGood, Fine

-----------------------------------------------------------------------------
LEMMA SameClusterGrows ==
  ASSUME NEW c, NEW n \in Nat, NEW m \in Seq(Cluster), NEW k \in Seq(Cluster),
         Grows(m, k), n < Len(m), SameCluster(c, n, m)
  PROVE  SameCluster(c, n, k)
<1>1. Len(m) \in Nat /\ Len(k) \in Nat /\ n + 1 \in 1..Len(m) /\ n < Len(k)
  BY DEF Grows
<1>2. c.id = n /\ c.label = m[n + 1].label /\ k[n + 1].label = m[n + 1].label
  BY <1>1 DEF Grows, SameCluster
<1> QED
  BY <1>1, <1>2 DEF SameCluster

\* One more broadcast is sent.
LEMMA LineSends ==
  ASSUME NEW q \in Seq(Cast), NEW s \in Nat, NEW h \in Nat, NEW m \in Seq(Cluster),
         Line(q, s, h, m), NEW e \in Cast,
         \A n \in 0..Len(m) : s = 2 * n => SameCluster(e.cluster, n, m)
  PROVE  Line(Append(q, e), s + 1, h, m)
<1>1. Len(q) = s - h /\ Len(q) \in Nat /\ h <= s /\ Len(m) \in Nat
  BY DEF Line
<1>2. /\ Len(Append(q, e)) = s + 1 - h
      /\ \A i \in 1..Len(q) : Append(q, e)[i] = q[i]
      /\ Append(q, e)[Len(q) + 1] = e
  BY <1>1
<1> DEFINE r == Append(q, e)
<1> HIDE DEF r
<1>3. ASSUME NEW n \in 0..Len(m), h <= 2 * n, 2 * n < s + 1
      PROVE  SameCluster(r[2 * n + 1 - h].cluster, n, m)
  <2>1. CASE 2 * n < s
    <3>1. 2 * n + 1 - h \in 1..Len(q)
      BY <1>1, <1>3, <2>1
    <3>2. r[2 * n + 1 - h] = q[2 * n + 1 - h]
      BY <1>2, <3>1 DEF r
    <3> QED
      BY <1>3, <2>1, <3>2 DEF Line
  <2>2. CASE 2 * n = s
    <3>1. 2 * n + 1 - h = Len(q) + 1
      BY <1>1, <2>2
    <3> QED
      BY <1>2, <2>2, <3>1 DEF r
  <2> QED
    BY <1>3, <2>1, <2>2
<1>4. Len(r) = s + 1 - h
  BY <1>2 DEF r
<1>5. \A n \in 0..Len(m) : h <= 2 * n /\ 2 * n < s + 1 =>
        SameCluster(r[2 * n + 1 - h].cluster, n, m)
  BY <1>3
<1>6. Line(r, s + 1, h, m)
  BY <1>4, <1>5 DEF Line
<1> QED
  BY <1>6 DEF r

\* One more broadcast is heard.
LEMMA LineHears ==
  ASSUME NEW q \in Seq(Cast), NEW s \in Nat, NEW h \in Nat, NEW m \in Seq(Cluster),
         Line(q, s, h, m), q # <<>>
  PROVE  /\ h < s
         /\ Line(Tail(q), s, h + 1, m)
         /\ \A n \in 0..Len(m) : h = 2 * n => SameCluster(Head(q).cluster, n, m)
<1>1. Len(q) = s - h /\ Len(q) \in Nat /\ Len(q) > 0 /\ Len(m) \in Nat
  BY DEF Line
<1>2. /\ Len(Tail(q)) = s - (h + 1)
      /\ \A i \in 1..(Len(q) - 1) : Tail(q)[i] = q[i + 1]
      /\ Head(q) = q[1]
  BY <1>1
<1> DEFINE r == Tail(q)
<1> HIDE DEF r
<1>3. ASSUME NEW n \in 0..Len(m), h + 1 <= 2 * n, 2 * n < s
      PROVE  SameCluster(r[2 * n + 1 - (h + 1)].cluster, n, m)
  <2>1. /\ 2 * n + 1 - (h + 1) \in 1..(Len(q) - 1)
        /\ 2 * n + 1 - (h + 1) + 1 = 2 * n + 1 - h
    BY <1>1, <1>3
  <2>2. r[2 * n + 1 - (h + 1)] = q[2 * n + 1 - h]
    BY <1>2, <2>1 DEF r
  <2>3. SameCluster(q[2 * n + 1 - h].cluster, n, m)
    BY <1>3 DEF Line
  <2> QED
    BY <2>2, <2>3
<1>4. ASSUME NEW n \in 0..Len(m), h = 2 * n
      PROVE  SameCluster(Head(q).cluster, n, m)
  <2>1. 2 * n + 1 - h = 1 /\ 2 * n < s
    BY <1>1, <1>4
  <2>2. SameCluster(q[2 * n + 1 - h].cluster, n, m)
    BY <1>4, <2>1 DEF Line
  <2> QED
    BY <1>2, <2>1, <2>2
<1> QED
  BY <1>1, <1>2, <1>3, <1>4 DEF Line, r

\* The model grows while nothing past its old clusters is out.
LEMMA LineGrows ==
  ASSUME NEW q, NEW s \in Nat, NEW h \in Nat, NEW m \in Seq(Cluster),
         NEW k \in Seq(Cluster), Grows(m, k), s <= 2 * Len(m), Line(q, s, h, m)
  PROVE  Line(q, s, h, k)
<1>1. Len(m) \in Nat /\ Len(k) \in Nat
  OBVIOUS
<1> SUFFICES ASSUME NEW n \in 0..Len(k), h <= 2 * n, 2 * n < s
             PROVE  SameCluster(q[2 * n + 1 - h].cluster, n, k)
  BY DEF Line
<1>2. n \in 0..Len(m) /\ n < Len(m) /\ n \in Nat
  BY <1>1
<1>3. SameCluster(q[2 * n + 1 - h].cluster, n, m)
  BY <1>2 DEF Line
<1> QED
  BY <1>2, <1>3, SameClusterGrows

\* While the sampler sends its clusters the detector waits, and with all of them
\* out, and only then, it may send the end.
LEMMA SentFacts ==
  ASSUME Inv
  PROVE  /\ M \in Nat /\ Sent \in Nat
         /\ sampler.pc \in {"struct", "center"} => detector.pc = "take" /\ M > 0
         /\ sampler.pc = "struct" => Sent = 2 * M - 2
         /\ sampler.pc = "center" => Sent = 2 * M - 1
         /\ sampler.pc \notin {"struct", "center"} =>
              /\ detector.pc = "take" => Sent = 2 * M
              /\ detector.pc = "struct" => Sent = 2 * detector.cast
              /\ detector.pc = "center" => Sent = 2 * detector.cast + 1
              /\ detector.pc = "done" => Sent = 2 * M + 1
         /\ Sent > 2 * M <=> detector.pc = "done"
         /\ root.st.nextId = 0 /\ Reading => detector.pc = "take"
         /\ detector.pc \in {"struct", "center"} =>
              detector.cast <= M /\ detector.packet # <<>>
         /\ detector.pc = "center" => detector.cast < M
<1>1. /\ M \in Nat /\ PhaseInv /\ DetectorInv /\ detector.cast \in Nat /\ Streams \in Nat \ {0}
      /\ sampler.pc \in {"read", "struct", "center", "eos", "done"}
      /\ detector.pc \in {"take", "struct", "center", "done", "failed"}
  BY StepType, RootType, Constants DEF Inv, PacketInv, RootInv, TypeOK
<1>2. detector.pc \in {"struct", "center"} => /\ detector.packet # <<>>
                                             /\ root.st.nextId > 0 /\ detector.cast <= M
  <2>1. detector.pc \in {"struct", "center"} =>
          /\ detector.packet # <<>> /\ detector.cast <= M
          /\ detector.packet[detector.at].label = Unk
    BY <1>1 DEF DetectorInv
  <2> QED
    BY <2>1, AtExample, Constants
<1>3. detector.pc = "center" => detector.cast < M
  BY <1>1 DEF DetectorInv
<1>4. sampler.pc \in {"struct", "center"} => root.st.nextId = 0 /\ M > 0 /\ Reading
  BY <1>1 DEF PhaseInv, Reading
<1>5. detector.pc = "done" => ~ Reading
  BY <1>1 DEF PhaseInv
<1>6. root.st.nextId = 0 /\ Reading => detector.pc = "take"
  BY <1>1, <1>2, <1>5 DEF PhaseInv
<1>7. /\ sampler.pc = "struct" => Sent = 2 * M - 2
      /\ sampler.pc = "center" => Sent = 2 * M - 1
      /\ sampler.pc \notin {"struct", "center"} =>
           /\ detector.pc = "take" => Sent = 2 * M
           /\ detector.pc = "struct" => Sent = 2 * detector.cast
           /\ detector.pc = "center" => Sent = 2 * detector.cast + 1
           /\ detector.pc = "done" => Sent = 2 * M + 1
  BY DEF Sent
<1>8. detector.pc # "failed"
  BY <1>1 DEF PhaseInv
<1>9. sampler.pc \in {"struct", "center"} => detector.pc = "take" /\ M > 0
  BY <1>4, <1>6
<1>10. Sent \in Nat /\ (Sent > 2 * M <=> detector.pc = "done")
  <2>1. CASE sampler.pc \in {"struct", "center"}
    BY <1>1, <1>7, <1>9, <2>1
  <2>2. CASE sampler.pc \notin {"struct", "center"}
    BY <1>1, <1>2, <1>3, <1>7, <1>8, <2>2
  <2> QED
    BY <2>1, <2>2
<1> QED
  BY <1>1, <1>2, <1>3, <1>6, <1>7, <1>9, <1>10

LEMMA HeardFacts ==
  ASSUME Inv, NEW l \in Leaves
  PROVE  /\ Heard(l) \in Nat /\ N(l) \in Nat
         /\ receiver[l].pc \in {"struct", "center", "add", "post", "done"}
<1>1. N(l) \in Nat /\ receiver[l].pc \in {"struct", "center", "add", "post", "done", "failed"}
  BY StepType DEF Inv, TypeOK
<1> QED
  BY <1>1 DEF Heard, Inv, CastInv, LeafCasts, ReceiverInv

LEMMA InitCast ==
  ASSUME Init
  PROVE  CastInv
<1>1. root.st = EmptyState /\ M = 0
  BY EmptyRootOK DEF Init, EmptyState, M
<1>2. sampler.pc = "read" /\ detector.pc = "take" /\ Sent = 0
  BY <1>1 DEF Init, Sent
<1> SUFFICES ASSUME NEW l \in Leaves
             PROVE  LeafCasts(l)
  BY DEF CastInv
<1>3. N(l) = 0 /\ receiver[l].pc = "struct" /\ casts[l] = <<>>
  BY DEF Init, N, EmptyState
<1>4. Heard(l) = 0
  BY <1>3 DEF Heard
<1>5. Len(root.st.model) = 0
  BY <1>1 DEF M
<1>6. Line(casts[l], Sent, Heard(l), root.st.model)
  BY <1>2, <1>3, <1>4, <1>5 DEF Line
<1> QED
  BY <1>1, <1>3, <1>6 DEF LeafCasts, ReceiverInv

\* Nothing is sent or heard; the model of rank 0 may grow.
LEMMA CastsRest ==
  ASSUME Inv, [Next]_vars, Sent' = Sent, NEW l \in Leaves,
         casts'[l] = casts[l], leaf'[l] = leaf[l], receiver'[l] = receiver[l],
         \/ root'.st.model = root.st.model /\ (detector.pc = "done" => detector'.pc = "done")
         \/ detector.pc # "done"
  PROVE  LeafCasts(l)'
<1>1. /\ LeafCasts(l) /\ M \in Nat /\ Sent \in Nat /\ Heard(l) \in Nat /\ N(l) \in Nat
      /\ detector.pc # "done" => Sent <= 2 * M
  BY SentFacts, HeardFacts DEF Inv, CastInv, LeafCasts
<1>2. /\ root.st.model \in Seq(Cluster) /\ root'.st.model \in Seq(Cluster)
      /\ M' \in Nat /\ M <= M' /\ Grows(root.st.model, root'.st.model)
  <2>1. RootOK(root) /\ RootOK(root') /\ RootKept
    BY RootNext DEF Inv, RootInv
  <2>2. root.st.model \in Seq(Cluster) /\ root'.st.model \in Seq(Cluster)
    BY <2>1 DEF RootOK, Root, MinasState
  <2> QED
    BY <2>1, <2>2 DEF RootKept, Grows, M
<1>3. Heard(l)' = Heard(l) /\ N(l)' = N(l)
  BY DEF Heard, N
<1>4. Line(casts[l], Sent, Heard(l), root'.st.model)
  <2>1. CASE root'.st.model = root.st.model
    BY <1>1, <2>1 DEF LeafCasts
  <2>2. CASE detector.pc # "done"
    BY <1>1, <1>2, <2>2, LineGrows DEF LeafCasts, M
  <2> QED
    BY <2>1, <2>2
<1>5. \A i \in 1..N(l) : SameCluster(leaf[l].model[i], i - 1, root'.st.model)
  <2> SUFFICES ASSUME NEW i \in 1..N(l)
               PROVE  SameCluster(leaf[l].model[i], i - 1, root'.st.model)
    OBVIOUS
  <2>1. i - 1 \in Nat /\ i - 1 < Len(root.st.model)
    BY <1>1 DEF LeafCasts, M
  <2>2. SameCluster(leaf[l].model[i], i - 1, root.st.model)
    BY <1>1 DEF LeafCasts
  <2> QED
    BY <1>2, <2>1, <2>2, SameClusterGrows
<1>6. ReceiverInv(l)'
  <2>1. ReceiverInv(l)
    BY <1>1 DEF LeafCasts
  <2>2. receiver[l].pc \in {"center", "add"} =>
          SameCluster(receiver[l].cluster[1], N(l), root'.st.model)
    BY <1>1, <1>2, <2>1, SameClusterGrows DEF ReceiverInv, M
  <2>3. receiver[l].pc = "done" => M' = M /\ detector'.pc = "done"
    BY <2>1 DEF ReceiverInv, M
  <2> QED
    BY <1>1, <1>2, <1>3, <2>1, <2>2, <2>3 DEF ReceiverInv
<1>7. casts'[l] = casts[l] /\ leaf'[l] = leaf[l] /\ Sent' = Sent
  OBVIOUS
<1> QED
  BY <1>1, <1>2, <1>3, <1>4, <1>5, <1>6, <1>7 DEF LeafCasts

\* One broadcast is sent.
LEMMA CastsSend ==
  ASSUME Inv, NEW l \in Leaves, NEW e \in Cast, casts'[l] = Append(casts[l], e),
         leaf'[l] = leaf[l], receiver'[l] = receiver[l], root' = root,
         Sent' = Sent + 1, detector.pc # "done",
         \A n \in 0..M : Sent = 2 * n => SameCluster(e.cluster, n, root.st.model)
  PROVE  LeafCasts(l)'
<1>1. /\ LeafCasts(l) /\ M \in Nat /\ Sent \in Nat /\ Heard(l) \in Nat /\ N(l) \in Nat
      /\ casts[l] \in Seq(Cast) /\ root.st.model \in Seq(Cluster)
  BY StepType, SentFacts, HeardFacts, RootType DEF Inv, CastInv, LeafCasts, RootInv
<1>2. Heard(l)' = Heard(l) /\ N(l)' = N(l) /\ M' = M
  BY DEF Heard, N, M
<1>3. Line(Append(casts[l], e), Sent + 1, Heard(l), root.st.model)
  BY <1>1, LineSends DEF LeafCasts, M
<1>4. receiver[l].pc # "done" /\ ReceiverInv(l)
  BY <1>1 DEF LeafCasts, ReceiverInv
<1>5. ReceiverInv(l)'
  BY <1>2, <1>4 DEF ReceiverInv
<1> QED
  BY <1>1, <1>2, <1>3, <1>5 DEF LeafCasts

LEMMA ReceiverCasts ==
  ASSUME Inv, NEW l \in Leaves, Receiver(l)
  PROVE  LeafCasts(l)'
<1>1. /\ LeafCasts(l) /\ M \in Nat /\ Sent \in Nat /\ Heard(l) \in Nat /\ N(l) \in Nat
      /\ casts[l] \in Seq(Cast) /\ root.st.model \in Seq(Cluster) /\ leaf[l] \in MinasState
      /\ leaf[l].model \in Seq(Cluster) /\ receiver[l].cluster \in Seq(Cluster)
      /\ casts \in [Leaves -> Seq(Cast)] /\ leaf \in [Leaves -> MinasState]
      /\ receiver \in [Leaves -> [pc : {"struct", "center", "add", "post", "done", "failed"},
                                  cluster : Seq(Cluster)]]
      /\ Sent > 2 * M => detector.pc = "done"
      /\ \A i \in 1..M : root.st.model[i].label # Eos
  BY StepType, SentFacts, HeardFacts, RootType DEF Inv, CastInv, LeafCasts, RootInv, TypeOK
<1>2. /\ Line(casts[l], Sent, Heard(l), root.st.model) /\ N(l) <= M /\ ReceiverInv(l)
      /\ \A i \in 1..N(l) : SameCluster(leaf[l].model[i], i - 1, root.st.model)
  BY <1>1 DEF LeafCasts
<1>3. root' = root /\ sampler' = sampler /\ detector' = detector /\ M' = M /\ Sent' = Sent
  BY DEF Receiver, HearStruct, HearCenter, Add, Post, rootVars, M, Sent
<1>4. CASE HearStruct(l)
  <2> DEFINE c == Head(casts[l]).cluster
  <2>1. receiver[l].pc = "struct" /\ casts[l] # <<>> /\ Heard(l) = 2 * N(l)
    BY <1>4 DEF HearStruct, Heard
  <2>2. /\ Heard(l) < Sent
        /\ Line(Tail(casts[l]), Sent, Heard(l) + 1, root.st.model)
        /\ \A n \in 0..M : Heard(l) = 2 * n => SameCluster(c, n, root.st.model)
    BY <1>1, <1>2, <2>1, LineHears DEF M
  <2>3. SameCluster(c, N(l), root.st.model)
    BY <1>1, <1>2, <2>1, <2>2
  <2>4. casts'[l] = Tail(casts[l]) /\ leaf' = leaf /\ N(l)' = N(l)
    BY <1>1, <1>4, TakenFrom DEF HearStruct, N
  <2>5. receiver'[l] = IF c.label = Eos THEN [pc |-> "done", cluster |-> <<>>]
                       ELSE [pc |-> "center", cluster |-> <<c>>]
    BY <1>1, <1>4 DEF HearStruct
  <2> HIDE DEF c
  <2>6. Heard(l)' = Heard(l) + 1
    BY <2>1, <2>4, <2>5 DEF Heard
  <2>7. c.label = Eos => N(l) = M /\ detector.pc = "done"
    <3>1. N(l) < M => c.label # Eos
      <4>1. N(l) < M => c.label = root.st.model[N(l) + 1].label
        BY <2>3 DEF SameCluster, M
      <4> QED
        BY <1>1, <4>1
    <3> QED
      BY <1>1, <1>2, <2>1, <2>2, <3>1
  <2>8. c.label # Eos => N(l) < M
    BY <1>1, <1>2, <2>3 DEF SameCluster, M
  <2>9. ReceiverInv(l)'
    BY <1>3, <2>3, <2>4, <2>5, <2>7, <2>8 DEF ReceiverInv
  <2> QED
    BY <1>2, <1>3, <2>2, <2>4, <2>6, <2>9 DEF LeafCasts
<1>5. CASE HearCenter(l)
  <2>1. receiver[l].pc = "center" /\ casts[l] # <<>> /\ Heard(l) = 2 * N(l) + 1
    BY <1>5 DEF HearCenter, Heard
  <2>2. Line(Tail(casts[l]), Sent, Heard(l) + 1, root.st.model)
    BY <1>1, <1>2, <2>1, LineHears DEF M
  <2>3. /\ casts'[l] = Tail(casts[l]) /\ leaf' = leaf /\ N(l)' = N(l)
    BY <1>1, <1>5, TakenFrom DEF HearCenter, N
  <2>4. receiver'[l].pc = "add" /\ receiver'[l].cluster = receiver[l].cluster
    BY <1>1, <1>5 DEF HearCenter
  <2>5. Heard(l)' = Heard(l) + 1
    BY <1>1, <2>1, <2>3, <2>4 DEF Heard
  <2>6. ReceiverInv(l)'
    BY <1>2, <1>3, <2>1, <2>3, <2>4 DEF ReceiverInv
  <2> QED
    BY <1>2, <1>3, <2>2, <2>3, <2>5, <2>6 DEF LeafCasts
<1>6. CASE Add(l)
  <2> DEFINE c == receiver[l].cluster[1]
             s == AddCluster(leaf[l], c)
  <2>1. /\ receiver[l].pc = "add" /\ Len(receiver[l].cluster) = 1
        /\ N(l) < M /\ SameCluster(c, N(l), root.st.model) /\ Heard(l) = 2 * N(l) + 2
    BY <1>2, <1>6 DEF Add, ReceiverInv, Heard
  <2>2. c \in Cluster /\ c.id = N(l)
    BY <1>1, <2>1 DEF SameCluster, M
  <2>3. leaf'[l] = s /\ receiver'[l] = [pc |-> "post", cluster |-> <<>>] /\ casts' = casts
    BY <1>1, <1>6, <2>2 DEF Add, N, network
  <2>4. s.model = Append(leaf[l].model, c)
    BY <1>1 DEF AddCluster, MinasState
  <2> HIDE DEF c, s
  <2>5. /\ Len(s.model) = N(l) + 1
        /\ \A i \in 1..N(l) : s.model[i] = leaf[l].model[i]
        /\ s.model[N(l) + 1] = c
    BY <1>1, <2>2, <2>4 DEF N
  <2>6. N(l)' = N(l) + 1
    BY <2>3, <2>5 DEF N
  <2>7. Heard(l)' = Heard(l)
    BY <1>1, <2>1, <2>3, <2>6 DEF Heard
  <2>8. \A i \in 1..(N(l) + 1) : SameCluster(s.model[i], i - 1, root.st.model)
    <3>1. (N(l) + 1) - 1 = N(l) /\ \A i \in 1..(N(l) + 1) : i \in 1..N(l) \/ i = N(l) + 1
      BY <1>1
    <3> QED
      BY <1>2, <2>1, <2>5, <3>1
  <2>9. ReceiverInv(l)'
    BY <2>3 DEF ReceiverInv
  <2> QED
    BY <1>1, <1>2, <1>3, <2>1, <2>3, <2>6, <2>7, <2>8, <2>9 DEF LeafCasts
<1>7. CASE Post(l)
  <2>1. /\ receiver[l].pc = "post" /\ receiver'[l].pc = "struct" /\ leaf' = leaf
        /\ casts' = casts /\ N(l)' = N(l)
    BY <1>1, <1>7 DEF Post, network, N
  <2>2. Heard(l)' = Heard(l)
    BY <2>1 DEF Heard
  <2>3. ReceiverInv(l)'
    BY <2>1 DEF ReceiverInv
  <2> QED
    BY <1>2, <1>3, <2>1, <2>2, <2>3 DEF LeafCasts
<1> QED
  BY <1>4, <1>5, <1>6, <1>7 DEF Receiver

\* The clusters of rank 0 are numbered, so each goes out as itself.
LEMMA RootCluster ==
  ASSUME Inv, NEW n \in 0..(M - 1)
  PROVE  /\ root.st.model[n + 1] \in Cluster
         /\ SameCluster(root.st.model[n + 1], n, root.st.model)
<1>1. M \in Nat /\ RootInv /\ \A i \in 1..M : root.st.model[i] \in Cluster
  BY RootType DEF Inv, RootInv
<1>2. n + 1 \in 1..M /\ (n + 1) - 1 = n /\ n < M
  BY <1>1
<1>3. root.st.model[n + 1].id = n
  BY <1>1, <1>2 DEF RootInv
<1> QED
  BY <1>1, <1>2, <1>3 DEF SameCluster, M

\* A cluster, or the end, goes out to every leaf.
LEMMA Broadcasts ==
  ASSUME Inv, NEW c \in Cluster, NEW what \in {"struct", "center"}, Broadcast(what, c),
         UNCHANGED <<leaf, receiver>>, root' = root,
         Sent' = Sent + 1, detector.pc # "done",
         \A n \in 0..M : Sent = 2 * n => SameCluster(c, n, root.st.model)
  PROVE  CastInv'
<1> SUFFICES ASSUME NEW l \in Leaves
             PROVE  LeafCasts(l)'
  BY DEF CastInv
<1>1. PICK e \in Cast : e.cluster = c /\ casts'[l] = Append(casts[l], e)
  BY CastType DEF Inv, TypeOK
<1> QED
  BY <1>1, CastsSend

LEMMA CastNext ==
  ASSUME Inv, [Next]_vars
  PROVE  CastInv'
<1>1. M \in Nat /\ Sent \in Nat /\ TypeOK
  BY SentFacts DEF Inv
<1>2. CASE UNCHANGED <<casts, leaf, receiver>> /\ Sent' = Sent
           /\ \/ root'.st.model = root.st.model /\ (detector.pc = "done" => detector'.pc = "done")
              \/ detector.pc # "done"
  BY <1>2, CastsRest DEF CastInv
<1>3. CASE ReadCluster
  <2>1. /\ sampler.pc = "read" /\ detector.pc = "take" /\ Sent = 2 * M
    BY <1>3, SentFacts DEF ReadCluster, Reading
  <2>2. sampler'.pc = "struct" /\ M' = M + 1
    BY <1>1, <1>3, ReadClusterRoot DEF ReadCluster, TypeOK, Inv
  <2>3. Sent' = Sent
    BY <1>1, <2>1, <2>2 DEF Sent
  <2> QED
    BY <1>2, <1>3, <2>1, <2>3 DEF ReadCluster, leafVars, network
<1>4. CASE CastLine
  <2>1. /\ sampler.pc \in {"struct", "center"} /\ detector.pc = "take" /\ M > 0
        /\ sampler.pc = "struct" => Sent = 2 * M - 2
        /\ sampler.pc = "center" => Sent = 2 * M - 1
    BY <1>4, SentFacts DEF CastLine
  <2>2. /\ root' = root /\ detector' = detector /\ M' = M /\ UNCHANGED <<leaf, receiver>>
        /\ sampler'.pc = IF sampler.pc = "struct" THEN "center" ELSE "read"
    BY <1>1, <1>4 DEF CastLine, TypeOK, M, leafVars
  <2>3. Sent' = Sent + 1
    BY <1>1, <2>1, <2>2 DEF Sent
  <2>4. M - 1 \in 0..(M - 1) /\ (M - 1) + 1 = M
    BY <1>1, <2>1
  <2>5. /\ root.st.model[M] \in Cluster
        /\ SameCluster(root.st.model[M], M - 1, root.st.model)
    BY <2>4, RootCluster
  <2>6. \A n \in 0..M : Sent = 2 * n => n = M - 1
    BY <1>1, <2>1
  <2>7. Broadcast(sampler.pc, root.st.model[M])
    BY <1>4 DEF CastLine, M
  <2> QED
    BY <2>1, <2>2, <2>3, <2>5, <2>6, <2>7, Broadcasts
<1>5. CASE ReadExample \/ EndOfInput \/ SendEos
  <2>1. /\ sampler.pc \notin {"struct", "center"} /\ sampler'.pc \notin {"struct", "center"}
        /\ detector' = detector /\ UNCHANGED <<casts, leaf, receiver>>
    BY <1>1, <1>5 DEF ReadExample, EndOfInput, SendEos, TypeOK, leafVars
  <2>2. root'.st.model = root.st.model
    BY <1>5, ReadExampleRoot DEF Inv, EndOfInput, SendEos
  <2>3. Sent' = Sent
    BY <2>1, <2>2 DEF Sent, M
  <2> QED
    BY <1>2, <2>1, <2>2, <2>3
<1>6. CASE TakeExample
  <2>1. /\ detector.pc = "take" /\ detector.packet # <<>>
        /\ TakeMarker \/ TakeKnown \/ TakeUnknown
        /\ ~ TakeUnknown => root'.st.model = root.st.model
        /\ UNCHANGED <<casts, leaf, receiver, sampler>>
    BY <1>6, TakeCases DEF TakeExample, leafVars, network
  <2>2. sampler.pc \notin {"struct", "center"}
    BY <2>1, AtExample
  <2>3. Sent = 2 * M
    BY <2>1, <2>2, SentFacts
  <2>4. CASE TakeUnknown
    <3>1. detector'.pc = "struct" /\ detector'.cast = M
      BY <1>1, <2>4 DEF TakeUnknown, TypeOK
    <3>2. Sent' = 2 * M
      BY <2>1, <2>2, <3>1 DEF Sent
    <3> QED
      BY <1>2, <2>1, <2>3, <3>2
  <2>5. CASE ~ TakeUnknown
    <3>1. detector'.pc = "take"
      BY <1>1, <2>1, <2>5 DEF TakeMarker, TakeKnown, Advanced, TypeOK
    <3>2. M' = M
      BY <2>1, <2>5 DEF M
    <3>3. Sent' = 2 * M
      BY <2>1, <2>2, <3>1, <3>2 DEF Sent
    <3> QED
      BY <1>2, <2>1, <2>3, <3>3
  <2> QED
    BY <2>4, <2>5
<1>7. CASE CastNew
  <2>1. /\ detector.pc \in {"struct", "center"} /\ detector.cast < M
        /\ root' = root /\ sampler' = sampler /\ M' = M /\ UNCHANGED <<leaf, receiver>>
        /\ IF detector.pc = "struct"
             THEN detector'.pc = "center" /\ detector'.cast = detector.cast
             ELSE detector'.pc = "struct" /\ detector'.cast = detector.cast + 1
        /\ Broadcast(detector.pc, root.st.model[detector.cast + 1])
        /\ detector.cast \in Nat
    BY <1>1, <1>7 DEF CastNew, TypeOK, M, leafVars
  <2>2. /\ sampler.pc \notin {"struct", "center"}
        /\ detector.pc = "struct" => Sent = 2 * detector.cast
        /\ detector.pc = "center" => Sent = 2 * detector.cast + 1
    BY <2>1, SentFacts
  <2>3. Sent' = Sent + 1
    BY <2>1, <2>2 DEF Sent
  <2>4. /\ root.st.model[detector.cast + 1] \in Cluster
        /\ SameCluster(root.st.model[detector.cast + 1], detector.cast, root.st.model)
    BY <1>1, <2>1, RootCluster
  <2>5. \A n \in 0..M : Sent = 2 * n => n = detector.cast
    BY <1>1, <2>1, <2>2
  <2> QED
    BY <2>1, <2>3, <2>4, <2>5, Broadcasts
<1>8. CASE PrintUnknown
  <2>1. /\ detector.pc = "struct" /\ detector.cast = M /\ root' = root /\ M' = M
        /\ UNCHANGED <<casts, leaf, receiver, sampler>>
        /\ detector'.pc = "take"
    BY <1>1, <1>8 DEF PrintUnknown, Advanced, TypeOK, M, leafVars, network
  <2>2. sampler.pc \notin {"struct", "center"} /\ Sent = 2 * M
    BY <2>1, SentFacts
  <2>3. Sent' = Sent
    BY <2>1, <2>2 DEF Sent
  <2> QED
    BY <1>2, <2>1, <2>3
<1>9. CASE EndOfStreams
  <2> DEFINE c == [id |-> 0, label |-> Eos, latest |-> 0, isSleep |-> FALSE, novel |-> FALSE,
                   touched |-> 0]
  <2>0. 0 \in 0..Tracked
    BY ParamsAssumption
  <2>1. c \in Cluster /\ c.label = Eos
    BY <2>0, Constants DEF Cluster
  <2>2. Broadcast("struct", c)
    BY <1>9 DEF EndOfStreams
  <2> HIDE DEF c
  <2>3. /\ detector.pc = "take" /\ detector.ended = Streams /\ detector'.pc = "done"
        /\ root' = root /\ sampler' = sampler /\ M' = M /\ UNCHANGED <<leaf, receiver>>
    BY <1>1, <1>9 DEF EndOfStreams, TypeOK, M, leafVars
  <2>4. sampler.pc \notin {"struct", "center"}
    BY <2>3, Constants DEF Inv, PhaseInv, Reading
  <2>5. Sent = 2 * M /\ Sent' = Sent + 1
    BY <2>3, <2>4, SentFacts DEF Sent
  <2>6. \A n \in 0..M : Sent = 2 * n => SameCluster(c, n, root.st.model)
    BY <1>1, <2>1, <2>5 DEF SameCluster, M
  <2> QED
    BY <2>1, <2>2, <2>3, <2>5, <2>6, Broadcasts
<1>10. CASE \E l \in Leaves : Receiver(l)
  <2>1. PICK l \in Leaves : Receiver(l)
    BY <1>10
  <2> SUFFICES ASSUME NEW k \in Leaves
               PROVE  LeafCasts(k)'
    BY DEF CastInv
  <2>2. CASE k = l
    BY <2>1, <2>2, ReceiverCasts
  <2>3. CASE k # l
    <3>1. casts'[k] = casts[k] /\ leaf'[k] = leaf[k] /\ receiver'[k] = receiver[k]
      BY <1>1, <2>1, <2>3 DEF Receiver, HearStruct, HearCenter, Add, Post, network, TypeOK
    <3>2. root' = root /\ sampler' = sampler /\ detector' = detector
      BY <2>1 DEF Receiver, HearStruct, HearCenter, Add, Post, rootVars
    <3>3. Sent' = Sent
      BY <3>2 DEF Sent, M
    <3> QED
      BY <3>1, <3>2, <3>3, CastsRest
  <2> QED
    BY <2>2, <2>3
<1>11. CASE \E t \in Threads : IdentifyNext(t)
  <2>1. PICK t \in Threads : IdentifyNext(t)
    BY <1>11
  <2>2. PICK s \in MinasState : /\ leaf' = [leaf EXCEPT ![t[1]] = s]
                                /\ Len(s.model) = N(t[1])
                                /\ SameClusters(leaf[t[1]].model, s.model)
    BY <2>1, IdentifyLabels
  <2>3. /\ casts' = casts /\ receiver' = receiver
        /\ root' = root /\ sampler' = sampler /\ detector' = detector
    BY <2>1 DEF IdentifyNext, rootVars
  <2>4. Sent' = Sent /\ M' = M
    BY <2>3 DEF Sent, M
  <2> SUFFICES ASSUME NEW k \in Leaves
               PROVE  LeafCasts(k)'
    BY DEF CastInv
  <2>5. LeafCasts(k)
    BY DEF Inv, CastInv
  <2>6. CASE k = t[1]
    <3>1. leaf'[k] = s
      BY <1>1, <2>2, <2>6 DEF TypeOK
    <3>2. N(k)' = N(k) /\ Heard(k)' = Heard(k)
      BY <2>2, <2>3, <2>6, <3>1 DEF N, Heard
    <3>3. \A i \in 1..N(k) : SameCluster(s.model[i], i - 1, root.st.model)
      BY <2>2, <2>5, <2>6 DEF LeafCasts, SameCluster, SameClusters, N
    <3>4. ReceiverInv(k)'
      BY <2>3, <2>4, <2>5, <3>2 DEF LeafCasts, ReceiverInv
    <3> QED
      BY <2>3, <2>4, <2>5, <3>1, <3>2, <3>3, <3>4 DEF LeafCasts
  <2>7. CASE k # t[1]
    <3>1. leaf'[k] = leaf[k]
      BY <1>1, <2>2, <2>7 DEF TypeOK
    <3> QED
      BY <2>3, <2>4, <3>1, CastsRest
  <2> QED
    BY <2>6, <2>7
<1>12. CASE TakePacket \/ (\E t \in Threads : Receive(t) \/ ForwardEos(t) \/ Check(t) \/ Wake(t))
            \/ Terminated \/ UNCHANGED vars
  <2>1. /\ UNCHANGED <<casts, leaf, receiver, root, sampler>>
        /\ detector'.pc = detector.pc /\ detector'.cast = detector.cast
    BY <1>1, <1>12 DEF TakePacket, Receive, ForwardEos, Check, Wake, Terminated, vars, leafVars,
                       network, rootVars, TypeOK
  <2>2. Sent' = Sent
    BY <2>1 DEF Sent, M
  <2> QED
    BY <1>2, <2>1, <2>2
<1> QED
  BY <1>3, <1>4, <1>5, <1>6, <1>7, <1>8, <1>9, <1>10, <1>11, <1>12
  DEF Next, Sampler, Detector, Classifier

-----------------------------------------------------------------------------
LEMMA IdsOf ==
  ASSUME NEW p \in Packet
  PROVE  /\ \A id : id \in Ids(p) <=> \E i \in DOMAIN p : p[i].label # Eos /\ p[i].id = id
         /\ p = <<>> => Ids(p) = {}
         /\ IsMarker(p) => Ids(p) = {}
         /\ \A n \in Nat : \A ids : Good(p, n, ids) => Ids(p) \subseteq 0..(n - 1)
         /\ \A n \in Nat, q \in Packet :
              /\ Data(p, n) /\ Data(q, n) /\ DOMAIN p = DOMAIN q
              /\ \A i \in DOMAIN p : p[i].id = q[i].id
              => Ids(p) = Ids(q)
<1>1. \A id : id \in Ids(p) <=> \E i \in DOMAIN p : p[i].label # Eos /\ p[i].id = id
  BY DEF Ids
<1>2. Len(p) \in Nat /\ DOMAIN p = 1..Len(p) /\ \A i \in DOMAIN p : p[i].id \in Nat
  BY PacketType
<1>3. p = <<>> => Ids(p) = {}
  BY <1>1
<1>4. IsMarker(p) => Ids(p) = {}
  BY <1>1, <1>2 DEF IsMarker
<1>5. ASSUME NEW n \in Nat, NEW ids, Good(p, n, ids)
      PROVE  Ids(p) \subseteq 0..(n - 1)
  BY <1>1, <1>2, <1>4, <1>5 DEF Good, Data
<1>6. ASSUME NEW n \in Nat, NEW q \in Packet, Data(p, n), Data(q, n), DOMAIN p = DOMAIN q,
             \A i \in DOMAIN p : p[i].id = q[i].id
      PROVE  Ids(p) = Ids(q)
  BY <1>6 DEF Ids, Data
<1> QED
  BY <1>1, <1>3, <1>4, <1>5, <1>6

LEMMA IdsAppend ==
  ASSUME NEW p \in Packet, NEW n \in Nat
  PROVE  Ids(Append(p, [id |-> n, label |-> StackLabel])) = Ids(p) \cup {n}
<1> DEFINE e == [id |-> n, label |-> StackLabel]
           q == Append(p, e)
<1>1. e.id = n /\ e.label # Eos /\ e \in Example
  BY Constants DEF Example
<1>2. Len(p) \in Nat /\ DOMAIN p = 1..Len(p) /\ p \in Seq(Example)
  BY PacketType
<1> HIDE DEF e
<1>3. /\ DOMAIN q = 1..(Len(p) + 1) /\ q \in Seq(Example)
      /\ \A i \in 1..Len(p) : q[i] = p[i]
      /\ q[Len(p) + 1] = e
  BY <1>1, <1>2
<1>4. q \in Packet
  BY <1>3 DEF Packet
<1> HIDE DEF q
<1>5. \A id : id \in Ids(q) <=> id \in Ids(p) \cup {n}
  <2> SUFFICES ASSUME NEW id
               PROVE  id \in Ids(q) <=> id \in Ids(p) \cup {n}
    OBVIOUS
  <2>1. id \in Ids(q) => id \in Ids(p) \cup {n}
    <3> SUFFICES ASSUME id \in Ids(q)
                 PROVE  id \in Ids(p) \/ id = n
      OBVIOUS
    <3>1. PICK i \in DOMAIN q : q[i].label # Eos /\ q[i].id = id
      BY <1>4, IdsOf
    <3>2. i \in 1..Len(p) \/ i = Len(p) + 1
      BY <1>2, <1>3, <3>1
    <3> QED
      BY <1>1, <1>2, <1>3, <3>1, <3>2, IdsOf
  <2>2. id \in Ids(p) => id \in Ids(q)
    BY <1>2, <1>3, <1>4, IdsOf
  <2>3. n \in Ids(q)
    BY <1>1, <1>2, <1>3, <1>4, IdsOf
  <2> QED
    BY <2>1, <2>2, <2>3
<1> QED
  BY <1>5 DEF q, e

\* Where an example is when a packet joins a queue, and when the head leaves it.
LEMMA PutPlaces ==
  ASSUME NEW I, NEW q \in [I -> Seq(Packet)], NEW i \in I, NEW p \in Packet,
         NEW id
  PROVE  LET r == [q EXCEPT ![i] = Append(@, p)]
         IN /\ \A k \in I : InQueue(id, r[k]) <=> InQueue(id, q[k]) \/ (k = i /\ id \in Ids(p))
            /\ \A k \in I : OnceIn(id, q[k]) /\ ~ (id \in Ids(p) /\ InQueue(id, q[k]))
                              => OnceIn(id, r[k])
<1> DEFINE r == [q EXCEPT ![i] = Append(@, p)]
<1>1. /\ r[i] = Append(q[i], p) /\ q[i] \in Seq(Packet)
      /\ \A k \in I : k # i => r[k] = q[k]
  BY PutIn
<1> DEFINE a == q[i]
           b == Append(a, p)
<1>2. /\ Len(a) \in Nat /\ DOMAIN a = 1..Len(a) /\ DOMAIN b = 1..(Len(a) + 1)
      /\ \A n \in 1..Len(a) : b[n] = a[n]
      /\ b[Len(a) + 1] = p
  BY <1>1
<1>3. r[i] = b
  BY <1>1
<1> HIDE DEF a, b, r
<1>4. \A n \in DOMAIN b : n \in DOMAIN a \/ n = Len(a) + 1
  BY <1>2
<1>5. Len(a) + 1 \in DOMAIN b /\ Len(a) + 1 \notin DOMAIN a /\ \A n \in DOMAIN a : n \in DOMAIN b
  BY <1>2
<1>6. InQueue(id, b) <=> InQueue(id, a) \/ id \in Ids(p)
  BY <1>2, <1>4, <1>5 DEF InQueue
<1>7. OnceIn(id, a) /\ ~ (id \in Ids(p) /\ InQueue(id, a)) => OnceIn(id, b)
  BY <1>2, <1>4 DEF InQueue, OnceIn
<1> QED
  BY <1>1, <1>3, <1>6, <1>7 DEF a, r

LEMMA TakePlaces ==
  ASSUME NEW I, NEW q \in [I -> Seq(Packet)], NEW i \in I, q[i] # <<>>,
         NEW id
  PROVE  LET r == [q EXCEPT ![i] = Tail(@)]
         IN /\ \A k \in I : InQueue(id, q[k]) <=>
                              InQueue(id, r[k]) \/ (k = i /\ id \in Ids(Head(q[i])))
            /\ \A k \in I : OnceIn(id, q[k]) => OnceIn(id, r[k])
            /\ OnceIn(id, q[i]) => ~ (id \in Ids(Head(q[i])) /\ InQueue(id, r[i]))
<1> DEFINE r == [q EXCEPT ![i] = Tail(@)]
<1>1. /\ r[i] = Tail(q[i]) /\ q[i] \in Seq(Packet)
      /\ \A k \in I : k # i => r[k] = q[k]
  BY TakenFrom
<1> DEFINE a == q[i]
           b == Tail(a)
<1>2. /\ Len(a) \in Nat /\ Len(a) > 0 /\ DOMAIN a = 1..Len(a) /\ DOMAIN b = 1..(Len(a) - 1)
      /\ \A n \in 1..(Len(a) - 1) : b[n] = a[n + 1]
      /\ Head(a) = a[1]
  BY <1>1
<1>3. r[i] = b
  BY <1>1
<1> HIDE DEF a, b, r
<1>4. /\ \A n \in DOMAIN a : n = 1 \/ (n - 1 \in DOMAIN b /\ b[n - 1] = a[n])
      /\ \A n \in DOMAIN b : n + 1 \in DOMAIN a /\ n + 1 # 1 /\ b[n] = a[n + 1]
      /\ 1 \in DOMAIN a
      /\ \A m, n \in DOMAIN b : m + 1 = n + 1 => m = n
  BY <1>2
<1>5. InQueue(id, a) <=> InQueue(id, b) \/ id \in Ids(Head(a))
  BY <1>2, <1>4 DEF InQueue
<1>6. OnceIn(id, a) => OnceIn(id, b) /\ ~ (id \in Ids(Head(a)) /\ InQueue(id, b))
  BY <1>2, <1>4 DEF InQueue, OnceIn
<1> QED
  BY <1>1, <1>3, <1>5, <1>6 DEF a, r

\* All packets, wherever they are, hold examples that were given an id.
LEMMA IdsGiven ==
  ASSUME Inv, NEW id, id \notin 0..(root.st.nextId - 1)
  PROVE  /\ ~ WithSampler(id) /\ ~ InExamples(id) /\ ~ WithClassifiers(id)
         /\ ~ InResults(id) /\ ~ WithDetector(id) /\ id \notin answered
         /\ \A l \in Leaves : ~ InQueue(id, examples[l]) /\ OnceIn(id, examples[l])
         /\ \A t \in Threads : /\ ~ InQueue(id, results[t]) /\ OnceIn(id, results[t])
                               /\ id \notin Ids(classifier[t].packet)
<1>1. root.st.nextId \in Nat
  BY RootType DEF Inv, RootInv
<1>2. \A p \in Packet : Fine(p) \/ Data(p, root.st.nextId) \/ p = <<>> => id \notin Ids(p)
  BY <1>1, IdsOf DEF Fine, Good
<1>3. id \notin Ids(sampler.packet)
  BY <1>2, StepType DEF Inv, PacketInv
<1>4. \A l \in Leaves : \A n \in DOMAIN examples[l] : id \notin Ids(examples[l][n])
  <2>1. \A l \in Leaves : \A n \in DOMAIN examples[l] : examples[l][n] \in Packet
    BY StepType DEF Inv
  <2> QED
    BY <1>2, <2>1 DEF Inv, PacketInv
<1>5. \A t \in Threads : \A n \in DOMAIN results[t] : id \notin Ids(results[t][n])
  <2>1. \A t \in Threads : \A n \in DOMAIN results[t] : results[t][n] \in Packet
    BY StepType DEF Inv
  <2> QED
    BY <1>2, <2>1 DEF Inv, PacketInv
<1>6. \A t \in Threads : id \notin Ids(classifier[t].packet)
  BY <1>2, StepType DEF Inv, PacketInv, ClassifierInv
<1>7. id \notin Ids(detector.packet)
  BY <1>2, StepType DEF Inv, PacketInv, DetectorInv
<1>8. id \notin answered
  BY DEF Inv, PlaceInv
<1> QED
  BY <1>3, <1>4, <1>5, <1>6, <1>7, <1>8
  DEF WithSampler, InExamples, WithClassifiers, InResults, WithDetector, InQueue, OnceIn

LEMMA InitPlace ==
  ASSUME Init
  PROVE  PlaceInv
<1>1. root.st.nextId = 0 /\ answered = {}
  BY EmptyRootOK DEF Init, EmptyState
<1> QED
  BY <1>1 DEF PlaceInv

-----------------------------------------------------------------------------
At(id) == SomePlace(id) /\ OneKind(id) /\ OnceThere(id)

\* A part of the state holds id where it did before.
ExamplesKept(id) ==
  \A l \in Leaves : /\ InQueue(id, examples'[l]) <=> InQueue(id, examples[l])
                    /\ OnceIn(id, examples[l]) => OnceIn(id, examples'[l])
ResultsKept(id) ==
  \A t \in Threads : /\ InQueue(id, results'[t]) <=> InQueue(id, results[t])
                     /\ OnceIn(id, results[t]) => OnceIn(id, results'[t])
ClassifiersKept(id) ==
  \A t \in Threads : id \in Ids(classifier'[t].packet) <=> id \in Ids(classifier[t].packet)
SamplerKept(id) == WithSampler(id)' <=> WithSampler(id)
DetectorKept(id) ==
  /\ WithDetector(id)' <=> WithDetector(id)
  /\ id \in answered' <=> id \in answered

\* id is only with the sampler, or nowhere.
Fresh(id) ==
  /\ ~ InExamples(id) /\ ~ WithClassifiers(id) /\ ~ InResults(id)
  /\ ~ WithDetector(id) /\ id \notin answered
  /\ OnceThere(id)

LEMMA FreshIds ==
  ASSUME Inv, NEW id \in 0..root.st.nextId,
         id = root.st.nextId \/ WithSampler(id)
  PROVE  Fresh(id) /\ (id = root.st.nextId => ~ WithSampler(id))
<1>1. root.st.nextId \in Nat
  BY RootType DEF Inv, RootInv
<1>2. CASE id = root.st.nextId
  <2>1. id \notin 0..(root.st.nextId - 1)
    BY <1>1, <1>2
  <2> QED
    BY <2>1, IdsGiven DEF Fresh, OnceThere
<1>3. CASE id # root.st.nextId
  <2>1. id \in 0..(root.st.nextId - 1)
    BY <1>1, <1>3
  <2> QED
    BY <1>3, <2>1 DEF Inv, PlaceInv, OneKind, Fresh
<1> QED
  BY <1>2, <1>3

LEMMA NothingMoves ==
  ASSUME NEW id, At(id), SamplerKept(id), ExamplesKept(id), ClassifiersKept(id),
         ResultsKept(id), DetectorKept(id)
  PROVE  At(id)'
<1>1. (InExamples(id)' <=> InExamples(id)) /\ (InResults(id)' <=> InResults(id))
      /\ (WithClassifiers(id)' <=> WithClassifiers(id))
  BY DEF InExamples, InResults, WithClassifiers, ExamplesKept, ResultsKept, ClassifiersKept
<1>2. SomePlace(id)' /\ OneKind(id)'
  BY <1>1 DEF At, SomePlace, OneKind, SamplerKept, DetectorKept
<1>3. OnceThere(id)'
  BY DEF At, OnceThere, ExamplesKept, ResultsKept, ClassifiersKept
<1> QED
  BY <1>2, <1>3 DEF At

\* What holds of the places of id when it has left the sampler for leaf l.
LEMMA SamplerGives ==
  ASSUME Inv, NEW id, NEW l \in Leaves, NEW p \in Packet, Fresh(id), id \in Ids(p),
         examples' = [examples EXCEPT ![l] = Append(@, p)], ~ WithSampler(id)',
         ClassifiersKept(id), ResultsKept(id), DetectorKept(id)
  PROVE  At(id)'
<1>1. examples \in [Leaves -> Seq(Packet)]
  BY DEF Inv, TypeOK
<1>2. \A k \in Leaves : ~ InQueue(id, examples[k]) /\ OnceIn(id, examples[k])
  BY DEF Fresh, InExamples, OnceThere
<1>3. \A k \in Leaves : InQueue(id, examples'[k]) <=> k = l
  BY <1>1, <1>2, PutPlaces
<1>4. \A k \in Leaves : OnceIn(id, examples'[k])
  BY <1>1, <1>2, PutPlaces
<1>5. InExamples(id)' /\ ~ InResults(id)' /\ ~ WithClassifiers(id)' /\ ~ WithDetector(id)'
      /\ id \notin answered'
  BY <1>3 DEF InExamples, InResults, WithClassifiers, ResultsKept, ClassifiersKept, DetectorKept,
              Fresh
<1>6. SomePlace(id)' /\ OneKind(id)'
  BY <1>5 DEF SomePlace, OneKind
<1>7. OnceThere(id)'
  BY <1>3, <1>4 DEF Fresh, OnceThere, ResultsKept, ClassifiersKept
<1> QED
  BY <1>6, <1>7 DEF At

LEMMA SamplerPlaces ==
  ASSUME Inv, Sampler, NEW id \in 0..(root'.st.nextId - 1)
  PROVE  At(id)'
<1>1. /\ TypeOK /\ sampler.packet \in Packet /\ root.st.nextId \in Nat /\ [Next]_vars
      /\ examples \in [Leaves -> Seq(Packet)] /\ NextDest \in Leaves
      /\ id \in 0..(root.st.nextId - 1) => At(id)
  BY StepType, RootType, DestType DEF Inv, RootInv, TypeOK, PlaceInv, At, Next
<1>2. ClassifiersKept(id) /\ ResultsKept(id) /\ DetectorKept(id)
  <2>1. classifier' = classifier /\ results' = results /\ detector' = detector
        /\ answered' = answered
    BY DEF Sampler, ReadCluster, CastLine, ReadExample, EndOfInput, SendEos, leafVars, network
  <2> QED
    BY <2>1 DEF ClassifiersKept, ResultsKept, DetectorKept, WithDetector
<1>3. ASSUME NEW l \in Leaves, NEW p \in Packet, examples' = [examples EXCEPT ![l] = Append(@, p)],
             id \notin Ids(p)
      PROVE  ExamplesKept(id)
  BY <1>1, <1>3, PutPlaces DEF ExamplesKept
<1>4. CASE ReadCluster \/ CastLine
  <2>1. sampler'.packet = sampler.packet /\ examples' = examples
    BY <1>1, <1>4 DEF ReadCluster, CastLine, TypeOK, network
  <2>2. root'.st.nextId = root.st.nextId
    BY <1>4, ReadClusterRoot DEF Inv, CastLine, ReadCluster
  <2> QED
    BY <1>1, <1>2, <2>1, <2>2, NothingMoves DEF SamplerKept, WithSampler, ExamplesKept
<1>5. CASE ReadExample
  <2> DEFINE p == Append(sampler.packet, [id |-> root.st.nextId, label |-> StackLabel])
  <2>1. p \in Packet /\ Ids(p) = Ids(sampler.packet) \cup {root.st.nextId}
    BY <1>1, IdsAppend, DataAppend, StepType DEF Inv, PacketInv
  <2>2. root'.st.nextId = root.st.nextId + 1
    BY <1>5, ReadExampleRoot DEF Inv
  <2>3. \/ sampler' = [sampler EXCEPT !.packet = p] /\ examples' = examples
        \/ /\ sampler' = [sampler EXCEPT !.packet = <<>>, !.dest = NextDest]
           /\ examples' = [examples EXCEPT ![NextDest] = Append(@, p)]
    BY <1>5 DEF ReadExample, SendExamples
  <2> HIDE DEF p
  <2>4. \/ sampler'.packet = p /\ examples' = examples
        \/ /\ sampler'.packet = <<>>
           /\ examples' = [examples EXCEPT ![NextDest] = Append(@, p)]
    BY <1>1, <2>3 DEF TypeOK
  <2>5. id \in 0..root.st.nextId
    BY <1>1, <2>2
  <2>6. Ids(<<>>) = {}
    BY DEF Ids
  <2>7. CASE id = root.st.nextId \/ WithSampler(id)
    <3>1. Fresh(id) /\ id \in Ids(p)
      BY <2>1, <2>5, <2>7, FreshIds DEF WithSampler
    <3>2. CASE sampler'.packet = p /\ examples' = examples
      <4>1. WithSampler(id)'
        BY <3>1, <3>2 DEF WithSampler
      <4>2. /\ ~ InExamples(id)' /\ ~ WithClassifiers(id)' /\ ~ InResults(id)'
            /\ ~ WithDetector(id)' /\ id \notin answered'
        BY <1>2, <3>1, <3>2 DEF Fresh, InExamples, WithClassifiers, InResults, ClassifiersKept,
                                ResultsKept, DetectorKept
      <4>3. OnceThere(id)'
        BY <1>2, <3>1, <3>2 DEF Fresh, OnceThere, ClassifiersKept, ResultsKept
      <4> QED
        BY <4>1, <4>2, <4>3 DEF At, SomePlace, OneKind
    <3>3. CASE /\ sampler'.packet = <<>>
               /\ examples' = [examples EXCEPT ![NextDest] = Append(@, p)]
      <4>1. ~ WithSampler(id)'
        BY <2>6, <3>3 DEF WithSampler
      <4> QED
        BY <1>1, <1>2, <2>1, <3>1, <3>3, <4>1, SamplerGives
    <3> QED
      BY <2>4, <3>2, <3>3
  <2>8. CASE ~ (id = root.st.nextId \/ WithSampler(id))
    <3>1. id \in 0..(root.st.nextId - 1) /\ id \notin Ids(p)
      BY <1>1, <2>1, <2>5, <2>8 DEF WithSampler
    <3>2. SamplerKept(id)
      BY <2>4, <2>6, <2>8, <3>1 DEF SamplerKept, WithSampler
    <3>3. ExamplesKept(id)
      BY <1>1, <1>3, <2>1, <2>4, <3>1 DEF ExamplesKept
    <3> QED
      BY <1>1, <1>2, <3>1, <3>2, <3>3, NothingMoves
  <2> QED
    BY <2>7, <2>8
<1>6. CASE EndOfInput
  <2>1. \/ sampler'.packet = sampler.packet /\ examples' = examples
        \/ /\ sampler'.packet = <<>>
           /\ examples' = [examples EXCEPT ![NextDest] = Append(@, sampler.packet)]
    BY <1>1, <1>6 DEF EndOfInput, SendExamples, TypeOK
  <2>2. id \in 0..(root.st.nextId - 1) /\ id \in 0..root.st.nextId
    BY <1>1, <1>6 DEF EndOfInput
  <2>3. Ids(<<>>) = {}
    BY DEF Ids
  <2>4. CASE sampler'.packet = sampler.packet /\ examples' = examples
    BY <1>1, <1>2, <2>2, <2>4, NothingMoves DEF SamplerKept, WithSampler, ExamplesKept
  <2>5. CASE /\ sampler'.packet = <<>>
             /\ examples' = [examples EXCEPT ![NextDest] = Append(@, sampler.packet)]
    <3>1. ~ WithSampler(id)'
      BY <2>3, <2>5 DEF WithSampler
    <3>2. CASE WithSampler(id)
      <4>1. Fresh(id) /\ id \in Ids(sampler.packet)
        BY <2>2, <3>2, FreshIds DEF WithSampler
      <4> QED
        BY <1>1, <1>2, <2>5, <3>1, <4>1, SamplerGives
    <3>3. CASE ~ WithSampler(id)
      <4>1. ExamplesKept(id)
        BY <1>1, <1>3, <2>5, <3>3 DEF WithSampler
      <4> QED
        BY <1>1, <1>2, <2>2, <3>1, <3>3, <4>1, NothingMoves DEF SamplerKept
    <3> QED
      BY <3>2, <3>3
  <2> QED
    BY <2>1, <2>4, <2>5
<1>7. CASE SendEos
  <2> DEFINE l == (sampler.sent \div NClassifiers) + 1
  <2>1. sampler.sent \in Nat /\ sampler.sent < Streams
    BY <1>1, <1>7, StepType DEF SendEos, Inv, PhaseInv
  <2>2. l \in Leaves
    BY <2>1, LeafOf
  <2>3. PICK e \in MarkerIds(root) :
          examples' = [examples EXCEPT ![l] = Append(@, <<[id |-> e, label |-> Eos]>>)]
    BY <1>7 DEF SendEos
  <2>4. e \in Nat
    BY <2>3, MarkerIdsType DEF Inv, RootInv
  <2> DEFINE p == <<[id |-> e, label |-> Eos]>>
  <2>5. p \in Packet /\ IsMarker(p)
    BY <2>4, MarkerType
  <2>6. examples' = [examples EXCEPT ![l] = Append(@, p)]
    BY <2>3
  <2>7. sampler'.packet = sampler.packet /\ id \in 0..(root.st.nextId - 1)
    BY <1>1, <1>7 DEF SendEos, TypeOK
  <2> HIDE DEF l, p
  <2>8. id \notin Ids(p)
    BY <2>5, IdsOf
  <2>9. ExamplesKept(id)
    BY <1>3, <2>2, <2>5, <2>6, <2>8
  <2> QED
    BY <1>1, <1>2, <2>7, <2>9, NothingMoves DEF SamplerKept, WithSampler
<1> QED
  BY <1>4, <1>5, <1>6, <1>7 DEF Sampler

LEMMA ReceivePlaces ==
  ASSUME Inv, NEW t \in Threads, Receive(t), NEW id, At(id)
  PROVE  At(id)'
<1> DEFINE l == t[1]
           p == Head(examples[l])
<1>1. /\ examples \in [Leaves -> Seq(Packet)] /\ l \in Leaves /\ examples[l] # <<>>
      /\ examples' = [examples EXCEPT ![l] = Tail(@)]
  BY ThreadType DEF Receive, Inv, TypeOK
<1>2. /\ \A k \in Leaves : InQueue(id, examples[k]) <=>
                             InQueue(id, examples'[k]) \/ (k = l /\ id \in Ids(p))
      /\ \A k \in Leaves : OnceIn(id, examples[k]) => OnceIn(id, examples'[k])
      /\ OnceIn(id, examples[l]) => ~ (id \in Ids(p) /\ InQueue(id, examples'[l]))
  <2> HIDE DEF l
  <2> QED
    BY <1>1, TakePlaces, Zenon
<1>3. classifier[t].packet = <<>> /\ Ids(<<>>) = {}
  BY DEF Receive, Inv, PacketInv, ClassifierInv, Ids
<1>4. /\ classifier'[t].packet = p
      /\ \A u \in Threads : u # t => classifier'[u] = classifier[u]
  BY DEF Receive, Inv, TypeOK
<1>5. SamplerKept(id) /\ ResultsKept(id) /\ DetectorKept(id)
  BY DEF Receive, rootVars, SamplerKept, WithSampler, ResultsKept, DetectorKept, WithDetector
<1> HIDE DEF l, p
<1>6. CASE id \in Ids(p)
  <2>1. /\ InExamples(id) /\ InQueue(id, examples[l])
        /\ \A k \in Leaves : InQueue(id, examples[k]) => k = l
    BY <1>1, <1>2, <1>6 DEF InExamples, At, OnceThere
  <2>2. \A k \in Leaves : ~ InQueue(id, examples'[k]) /\ OnceIn(id, examples'[k])
    BY <1>1, <1>2, <1>6, <2>1 DEF At, OnceThere
  <2>3. /\ ~ WithSampler(id) /\ ~ WithClassifiers(id) /\ ~ InResults(id)
        /\ ~ WithDetector(id) /\ id \notin answered
    BY <2>1 DEF At, OneKind
  <2>4. \A u \in Threads : id \in Ids(classifier'[u].packet) <=> u = t
    BY <1>4, <1>6, <2>3 DEF WithClassifiers
  <2>5. /\ ~ WithSampler(id)' /\ ~ InExamples(id)' /\ WithClassifiers(id)'
        /\ ~ InResults(id)' /\ ~ WithDetector(id)' /\ id \notin answered'
    BY <1>5, <2>2, <2>3, <2>4
    DEF InExamples, WithClassifiers, InResults, SamplerKept, ResultsKept, DetectorKept
  <2>6. SomePlace(id)' /\ OneKind(id)'
    BY <2>5 DEF SomePlace, OneKind
  <2>7. OnceThere(id)'
    BY <1>5, <2>2, <2>4 DEF At, OnceThere, ResultsKept
  <2> QED
    BY <2>6, <2>7 DEF At
<1>7. CASE id \notin Ids(p)
  <2>1. ExamplesKept(id)
    BY <1>2, <1>7 DEF ExamplesKept
  <2>2. ClassifiersKept(id)
    BY <1>3, <1>4, <1>7 DEF ClassifiersKept
  <2> QED
    BY <1>5, <2>1, <2>2, NothingMoves
<1> QED
  BY <1>6, <1>7

\* Classifier t has given packet p, with all it held, to the detector.
LEMMA AnswerPlaces ==
  ASSUME Inv, NEW t \in Threads, NEW p \in Packet, NEW id, At(id),
         Ids(p) = Ids(classifier[t].packet),
         results' = [results EXCEPT ![t] = Append(@, p)],
         classifier'[t].packet = <<>>,
         \A u \in Threads : u # t => classifier'[u] = classifier[u],
         SamplerKept(id), ExamplesKept(id), DetectorKept(id)
  PROVE  At(id)'
<1>1. results \in [Threads -> Seq(Packet)]
  BY DEF Inv, TypeOK
<1>2. /\ \A u \in Threads : InQueue(id, results'[u]) <=>
                              InQueue(id, results[u]) \/ (u = t /\ id \in Ids(p))
      /\ \A u \in Threads : OnceIn(id, results[u]) /\ ~ (id \in Ids(p) /\ InQueue(id, results[u]))
                              => OnceIn(id, results'[u])
  <2> DEFINE r == [results EXCEPT ![t] = Append(@, p)]
  <2>1. /\ \A u \in Threads : InQueue(id, r[u]) <=>
                                InQueue(id, results[u]) \/ (u = t /\ id \in Ids(p))
        /\ \A u \in Threads : OnceIn(id, results[u]) /\ ~ (id \in Ids(p) /\ InQueue(id, results[u]))
                                => OnceIn(id, r[u])
    BY <1>1, PutPlaces
  <2>2. results' = r
    OBVIOUS
  <2> HIDE DEF r
  <2> QED
    BY <2>1, <2>2
<1>3. Ids(<<>>) = {}
  BY DEF Ids
<1>4. CASE id \in Ids(p)
  <2>1. WithClassifiers(id)
    BY <1>4 DEF WithClassifiers
  <2>2. /\ ~ WithSampler(id) /\ ~ InExamples(id) /\ ~ InResults(id)
        /\ ~ WithDetector(id) /\ id \notin answered
    BY <2>1 DEF At, OneKind
  <2>3. \A u \in Threads : id \notin Ids(classifier'[u].packet)
    BY <1>3, <1>4 DEF At, OnceThere
  <2>4. \A u \in Threads : /\ InQueue(id, results'[u]) <=> u = t
                           /\ OnceIn(id, results'[u])
    BY <1>2, <1>4, <2>2 DEF InResults, At, OnceThere
  <2>5. /\ ~ WithSampler(id)' /\ ~ InExamples(id)' /\ ~ WithClassifiers(id)'
        /\ InResults(id)' /\ ~ WithDetector(id)' /\ id \notin answered'
    BY <2>2, <2>3, <2>4
    DEF InExamples, WithClassifiers, InResults, SamplerKept, ExamplesKept, DetectorKept
  <2>6. SomePlace(id)' /\ OneKind(id)'
    BY <2>5 DEF SomePlace, OneKind
  <2>7. OnceThere(id)'
    BY <2>3, <2>4 DEF At, OnceThere, ExamplesKept
  <2> QED
    BY <2>6, <2>7 DEF At
<1>5. CASE id \notin Ids(p)
  <2>1. ResultsKept(id) /\ ClassifiersKept(id)
    BY <1>2, <1>3, <1>5 DEF ResultsKept, ClassifiersKept
  <2> QED
    BY <2>1, NothingMoves
<1> QED
  BY <1>4, <1>5

LEMMA ClassifierPlaces ==
  ASSUME Inv, NEW t \in Threads, Classifier(t), NEW id, At(id)
  PROVE  At(id)'
<1>1. /\ classifier \in [Threads -> [pc : {"receive", "check", "wait", "identify", "done"},
                                     packet : Packet, at : Nat \ {0}]]
      /\ classifier[t].packet \in Packet /\ Ids(<<>>) = {}
  BY StepType DEF Inv, TypeOK, Ids
<1>2. UNCHANGED <<sampler, detector, answered>>
  BY DEF Classifier, Receive, ForwardEos, Check, Wake, IdentifyNext, rootVars
<1>3. SamplerKept(id) /\ DetectorKept(id)
  BY <1>2 DEF SamplerKept, WithSampler, DetectorKept, WithDetector
<1>4. CASE Receive(t)
  BY <1>4, ReceivePlaces
<1>5. CASE ForwardEos(t)
  <2>1. /\ IsMarker(classifier[t].packet)
        /\ results' = [results EXCEPT ![t] = Append(@, classifier[t].packet)]
        /\ classifier' = [classifier EXCEPT ![t] = [pc |-> "done", packet |-> <<>>, at |-> 1]]
    BY <1>5, EosForwarded
  <2>2. ExamplesKept(id)
    BY <1>5 DEF ForwardEos, ExamplesKept
  <2>3. /\ classifier'[t].packet = <<>>
        /\ \A u \in Threads : u # t => classifier'[u] = classifier[u]
    BY <1>1, <2>1
  <2> QED
    BY <1>1, <1>3, <2>1, <2>2, <2>3, AnswerPlaces
<1>6. CASE Check(t) \/ Wake(t)
  <2>1. \A u \in Threads : classifier'[u].packet = classifier[u].packet
    BY <1>1, <1>6, ChecksOn
  <2>2. results' = results /\ examples' = examples
    BY <1>6, ChecksOn
  <2> QED
    BY <1>3, <2>1, <2>2, NothingMoves DEF ExamplesKept, ResultsKept, ClassifiersKept
<1>7. CASE IdentifyNext(t)
  <2>1. PICK p \in Packet : Labelled(t, p)
    BY <1>7, IdentifyLabels
  <2>2. Ids(p) = Ids(classifier[t].packet)
    BY <1>1, <2>1, IdsOf, FineKept, RootType DEF Labelled, Inv, RootInv
  <2>3. ExamplesKept(id)
    BY <1>7 DEF IdentifyNext, ExamplesKept
  <2>4. CASE /\ results' = [results EXCEPT ![t] = Append(@, p)]
             /\ classifier' = [classifier EXCEPT ![t] =
                                 [pc |-> "receive", packet |-> <<>>, at |-> 1]]
    <3>1. /\ classifier'[t].packet = <<>>
          /\ \A u \in Threads : u # t => classifier'[u] = classifier[u]
      BY <1>1, <2>4
    <3> QED
      BY <1>3, <2>2, <2>3, <2>4, <3>1, AnswerPlaces
  <2>5. CASE /\ results' = results
             /\ classifier' = [classifier EXCEPT ![t] =
                                 [pc |-> "check", packet |-> p, at |-> classifier[t].at + 1]]
    <3>1. \A u \in Threads : classifier'[u].packet = IF u = t THEN p ELSE classifier[u].packet
      BY <1>1, <2>5
    <3>2. ClassifiersKept(id)
      BY <2>2, <3>1 DEF ClassifiersKept
    <3>3. ResultsKept(id)
      BY <2>5 DEF ResultsKept
    <3> QED
      BY <1>3, <2>3, <3>2, <3>3, NothingMoves
  <2> QED
    BY <2>1, <2>4, <2>5 DEF Labelled
<1> QED
  BY <1>4, <1>5, <1>6, <1>7 DEF Classifier

LEMMA TakePacketPlaces ==
  ASSUME Inv, TakePacket, NEW id, At(id)
  PROVE  At(id)'
<1>1. PICK t \in Threads :
        /\ results[t] # <<>>
        /\ detector' = [detector EXCEPT !.packet = Head(results[t]), !.at = 1]
        /\ results' = [results EXCEPT ![t] = Tail(@)]
  BY DEF TakePacket
<1> DEFINE p == Head(results[t])
<1>2. results \in [Threads -> Seq(Packet)]
  BY DEF Inv, TypeOK
<1>3. /\ \A u \in Threads : InQueue(id, results[u]) <=>
                              InQueue(id, results'[u]) \/ (u = t /\ id \in Ids(p))
      /\ \A u \in Threads : OnceIn(id, results[u]) => OnceIn(id, results'[u])
      /\ OnceIn(id, results[t]) => ~ (id \in Ids(p) /\ InQueue(id, results'[t]))
  BY <1>1, <1>2, TakePlaces, Zenon
<1>4. detector.packet = <<>> /\ Ids(<<>>) = {} /\ detector'.packet = p /\ answered' = answered
  <2>1. detector' = [detector EXCEPT !.packet = p, !.at = 1]
    BY <1>1
  <2> HIDE DEF p
  <2>2. detector'.packet = p
    BY <2>1 DEF Inv, TypeOK
  <2> QED
    BY <2>2 DEF TakePacket, Ids
<1>5. SamplerKept(id) /\ ExamplesKept(id) /\ ClassifiersKept(id)
  BY DEF TakePacket, leafVars, SamplerKept, WithSampler, ExamplesKept, ClassifiersKept
<1>6. ~ WithDetector(id) /\ (WithDetector(id)' <=> id \in Ids(p) /\ id \notin answered)
  BY <1>4 DEF WithDetector
<1> HIDE DEF p
<1>7. CASE id \in Ids(p)
  <2>1. /\ InResults(id) /\ InQueue(id, results[t])
        /\ \A u \in Threads : InQueue(id, results[u]) => u = t
    BY <1>3, <1>7 DEF InResults, At, OnceThere
  <2>2. \A u \in Threads : ~ InQueue(id, results'[u]) /\ OnceIn(id, results'[u])
    BY <1>3, <1>7, <2>1 DEF At, OnceThere
  <2>3. ~ WithSampler(id) /\ ~ InExamples(id) /\ ~ WithClassifiers(id) /\ id \notin answered
    BY <2>1 DEF At, OneKind
  <2>4. /\ ~ WithSampler(id)' /\ ~ InExamples(id)' /\ ~ WithClassifiers(id)'
        /\ ~ InResults(id)' /\ WithDetector(id)' /\ id \notin answered'
    BY <1>4, <1>5, <1>6, <1>7, <2>2, <2>3
    DEF InExamples, WithClassifiers, InResults, SamplerKept, ExamplesKept, ClassifiersKept
  <2>5. SomePlace(id)' /\ OneKind(id)'
    BY <2>4 DEF SomePlace, OneKind
  <2>6. OnceThere(id)'
    BY <1>5, <2>2 DEF At, OnceThere, ExamplesKept, ClassifiersKept
  <2> QED
    BY <2>5, <2>6 DEF At
<1>8. CASE id \notin Ids(p)
  <2>1. ResultsKept(id)
    BY <1>3, <1>8 DEF ResultsKept
  <2>2. DetectorKept(id)
    BY <1>4, <1>6, <1>8 DEF DetectorKept
  <2> QED
    BY <1>5, <2>1, <2>2, NothingMoves
<1> QED
  BY <1>7, <1>8

\* The detector prints the example it is at.
LEMMA PrintPlaces ==
  ASSUME Inv, NEW id, At(id), detector.packet # <<>>,
         Data(detector.packet, root.st.nextId),
         detector' = Advanced,
         answered' = answered \cup {detector.packet[detector.at].id},
         SamplerKept(id), ExamplesKept(id), ClassifiersKept(id), ResultsKept(id)
  PROVE  At(id)'
<1> DEFINE p == detector.packet
           e == p[detector.at]
<1>1. /\ p \in Packet /\ TypeOK /\ detector.at \in DOMAIN p /\ detector.at \in Nat
      /\ Len(p) \in Nat /\ DOMAIN p = 1..Len(p)
      /\ \A i \in DOMAIN p : p[i].id \in answered <=> i < detector.at
      /\ \A i \in DOMAIN p : p[i].label # Eos
  BY StepType, PacketType DEF Inv, PacketInv, DetectorInv, Data
<1>2. Ids(<<>>) = {} /\ e.id \in Ids(p) /\ e.id \notin answered
  BY <1>1, IdsOf DEF Ids
<1>3. detector'.packet = IF detector.at = Len(p) THEN <<>> ELSE p
  BY <1>1 DEF Advanced, TypeOK
<1>4. detector.at = Len(p) => Ids(p) \subseteq answered'
  <2> SUFFICES ASSUME detector.at = Len(p), NEW i \in DOMAIN p
               PROVE  p[i].id \in answered'
    BY <1>1, IdsOf
  <2>1. i < detector.at \/ i = detector.at
    BY <1>1
  <2> QED
    BY <1>1, <2>1
<1>5. e.id \in answered' /\ answered' = answered \cup {e.id}
  OBVIOUS
<1> HIDE DEF p, e
<1>6. CASE id = e.id
  <2>1. WithDetector(id)
    BY <1>2, <1>6 DEF WithDetector, p
  <2>2. ~ WithSampler(id) /\ ~ InExamples(id) /\ ~ WithClassifiers(id) /\ ~ InResults(id)
    BY <2>1 DEF At, OneKind
  <2>3. /\ ~ WithSampler(id)' /\ ~ InExamples(id)' /\ ~ WithClassifiers(id)'
        /\ ~ InResults(id)' /\ ~ WithDetector(id)' /\ id \in answered'
    BY <1>5, <1>6, <2>2
    DEF InExamples, WithClassifiers, InResults, WithDetector, SamplerKept, ExamplesKept,
        ClassifiersKept, ResultsKept
  <2>4. SomePlace(id)' /\ OneKind(id)'
    BY <2>3 DEF SomePlace, OneKind
  <2>5. OnceThere(id)'
    BY DEF At, OnceThere, ExamplesKept, ClassifiersKept, ResultsKept
  <2> QED
    BY <2>4, <2>5 DEF At
<1>7. CASE id # e.id
  <2>1. id \in answered' <=> id \in answered
    BY <1>5, <1>7
  <2>2. WithDetector(id)' <=> WithDetector(id)
    BY <1>2, <1>3, <1>4, <2>1 DEF WithDetector, p
  <2> QED
    BY <2>1, <2>2, NothingMoves DEF DetectorKept
<1> QED
  BY <1>6, <1>7

LEMMA DetectorPlaces ==
  ASSUME Inv, Detector, NEW id, At(id)
  PROVE  At(id)'
<1>1. TypeOK /\ Ids(<<>>) = {} /\ detector.packet \in Packet
  BY StepType DEF Inv, Ids
<1>2. /\ ~ TakePacket => UNCHANGED <<sampler, classifier, examples, results>>
      /\ SamplerKept(id) /\ ExamplesKept(id) /\ ClassifiersKept(id)
  BY DEF Detector, TakePacket, TakeExample, CastNew, PrintUnknown, EndOfStreams, leafVars, network,
         SamplerKept, WithSampler, ExamplesKept, ClassifiersKept
<1>3. ~ TakePacket => ResultsKept(id)
  BY <1>2 DEF ResultsKept
<1>4. CASE TakePacket
  BY <1>4, TakePacketPlaces
<1>5. CASE TakeExample /\ ~ TakePacket
  <2>1. detector.packet # <<>> /\ (TakeMarker \/ TakeKnown \/ TakeUnknown)
    BY <1>5, TakeCases
  <2>2. CASE TakeMarker
    <3>1. IsMarker(detector.packet) /\ detector.at = Len(detector.packet)
      BY <2>1, <2>2, AtExample DEF TakeMarker
    <3>2. detector'.packet = <<>> /\ answered' = answered
      BY <1>1, <2>2, <3>1 DEF TakeMarker, Advanced, TypeOK
    <3>3. DetectorKept(id)
      BY <1>1, <3>1, <3>2, IdsOf DEF DetectorKept, WithDetector
    <3> QED
      BY <1>2, <1>3, <1>5, <3>3, NothingMoves
  <2>3. CASE TakeKnown
    <3>1. Data(detector.packet, root.st.nextId)
      BY <2>1, <2>3, AtExample DEF TakeKnown
    <3> QED
      BY <1>2, <1>3, <1>5, <2>1, <2>3, <3>1, PrintPlaces DEF TakeKnown
  <2>4. CASE TakeUnknown
    <3>1. detector'.packet = detector.packet /\ answered' = answered
      BY <1>1, <2>4 DEF TakeUnknown, TypeOK
    <3> QED
      BY <1>2, <1>3, <1>5, <3>1, NothingMoves DEF DetectorKept, WithDetector
  <2> QED
    BY <2>1, <2>2, <2>3, <2>4
<1>6. CASE (CastNew \/ EndOfStreams) /\ ~ TakePacket
  <2>1. detector'.packet = detector.packet /\ answered' = answered
    BY <1>1, <1>6 DEF CastNew, EndOfStreams, TypeOK
  <2> QED
    BY <1>2, <1>3, <1>6, <2>1, NothingMoves DEF DetectorKept, WithDetector
<1>7. CASE PrintUnknown /\ ~ TakePacket
  <2>1. /\ detector.packet # <<>> /\ detector.packet[detector.at].label = Unk
        /\ detector' = Advanced
        /\ answered' = answered \cup {detector.packet[detector.at].id}
    BY <1>7 DEF Inv, PacketInv, PrintUnknown, DetectorInv
  <2>2. Data(detector.packet, root.st.nextId)
    BY <2>1, AtExample, Constants
  <2> QED
    BY <1>2, <1>3, <1>7, <2>1, <2>2, PrintPlaces
<1> QED
  BY <1>4, <1>5, <1>6, <1>7 DEF Detector

LEMMA AnsweredNext ==
  ASSUME Inv, [Next]_vars
  PROVE  answered' \subseteq 0..(root'.st.nextId - 1)
<1>1. /\ answered \subseteq 0..(root.st.nextId - 1) /\ root.st.nextId \in Nat
      /\ root'.st.nextId \in Nat /\ root.st.nextId <= root'.st.nextId
  BY FineKept DEF Inv, PlaceInv
<1>2. \/ answered' = answered
      \/ /\ detector.packet # <<>> /\ detector.packet[detector.at].label # Eos
         /\ answered' = answered \cup {detector.packet[detector.at].id}
  <2>1. CASE TakeExample
    BY <2>1, TakeCases DEF TakeMarker, TakeKnown, TakeUnknown
  <2>2. CASE PrintUnknown
    BY <2>2, Constants DEF PrintUnknown, Inv, PacketInv, DetectorInv
  <2>3. CASE ~ TakeExample /\ ~ PrintUnknown
    BY <2>3, DetectorSame DEF Detector, TakePacket, CastNew, EndOfStreams
  <2> QED
    BY <2>1, <2>2, <2>3
<1>3. detector.packet # <<>> /\ detector.packet[detector.at].label # Eos
        => detector.packet[detector.at].id \in 0..(root.st.nextId - 1)
  BY <1>1, AtExample
<1>4. CASE answered' = answered
  BY <1>1, <1>4
<1>5. CASE detector.packet # <<>> /\ detector.packet[detector.at].label # Eos
  <2> DEFINE n == detector.packet[detector.at].id
  <2>1. n \in 0..(root'.st.nextId - 1)
    BY <1>1, <1>3, <1>5
  <2>2. answered' \subseteq answered \cup {n}
    BY <1>2
  <2> HIDE DEF n
  <2> QED
    BY <1>1, <2>1, <2>2
<1> QED
  BY <1>2, <1>4, <1>5

LEMMA PlaceNext ==
  ASSUME Inv, [Next]_vars
  PROVE  PlaceInv'
<1> SUFFICES ASSUME NEW id \in 0..(root'.st.nextId - 1)
             PROVE  At(id)'
  BY AnsweredNext DEF PlaceInv, At
<1>1. CASE Sampler
  BY <1>1, SamplerPlaces
<1>2. CASE ~ Sampler
  <2>1. root'.st.nextId = root.st.nextId
    <3>1. CASE Detector
      BY <3>1, TakeCases DEF Detector, TakePacket, CastNew, PrintUnknown, EndOfStreams
    <3>2. CASE ~ Detector
      BY <1>2, <3>2 DEF Next, Receiver, HearStruct, HearCenter, Add, Post, Classifier, Receive,
                    ForwardEos, Check, Wake, IdentifyNext, Terminated, vars, rootVars
    <3> QED
      BY <3>1, <3>2
  <2>2. At(id)
    BY <2>1 DEF Inv, PlaceInv, At
  <2>3. CASE Detector
    BY <2>2, <2>3, DetectorPlaces
  <2>4. CASE \E t \in Threads : Classifier(t)
    BY <2>2, <2>4, ClassifierPlaces
  <2>5. CASE ~ Detector /\ ~ (\E t \in Threads : Classifier(t))
    <3>1. UNCHANGED <<sampler, detector, answered, classifier, examples, results>>
      BY <1>2, <2>5 DEF Next, Receiver, HearStruct, HearCenter, Add, Post, Terminated, vars,
                    rootVars, leafVars, network
    <3> QED
      BY <2>2, <3>1, NothingMoves DEF SamplerKept, WithSampler, ExamplesKept, ClassifiersKept,
                    ResultsKept, DetectorKept, WithDetector
  <2> QED
    BY <2>3, <2>4, <2>5
<1> QED
  BY <1>1, <1>2

-----------------------------------------------------------------------------
LEMMA SentToNext ==
  ASSUME NEW l \in Leaves, NEW n \in Nat, n < Streams, sampler.sent = n,
         sampler'.sent = n + 1
  PROVE  /\ SentTo(l) \in Nat
         /\ SentTo(l)' = IF l = (n \div NClassifiers) + 1 THEN SentTo(l) + 1 ELSE SentTo(l)
<1> DEFINE k == (n \div NClassifiers) + 1
           c == NClassifiers
<1>1. k \in Nat /\ k >= 1 /\ (k - 1) * c <= n /\ n < k * c
  BY LeafOf DEF Leaves
<1>2. c \in Nat \ {0} /\ l \in Nat /\ l >= 1
  BY Constants DEF Leaves
<1>3. SentTo(l) = IF n >= l * c THEN c ELSE IF n <= (l - 1) * c THEN 0 ELSE n - (l - 1) * c
  BY DEF SentTo
<1>4. SentTo(l)' = IF n + 1 >= l * c THEN c
                   ELSE IF n + 1 <= (l - 1) * c THEN 0 ELSE n + 1 - (l - 1) * c
  <2>1. SentTo(l)' = IF sampler'.sent >= l * c THEN c
                     ELSE IF sampler'.sent <= (l - 1) * c THEN 0
                     ELSE sampler'.sent - (l - 1) * c
    BY DEF SentTo
  <2> DEFINE a == l * c
             b == (l - 1) * c
             s == sampler'.sent
  <2>2. a \in Int /\ b \in Int /\ c \in Int /\ s = n + 1 /\ n \in Nat
    BY <1>2
  <2>3. SentTo(l)' = IF s >= a THEN c ELSE IF s <= b THEN 0 ELSE s - b
    BY <2>1
  <2> HIDE DEF a, b, c, s
  <2>4. SentTo(l)' = IF n + 1 >= a THEN c ELSE IF n + 1 <= b THEN 0 ELSE n + 1 - b
    BY <2>2, <2>3
  <2> QED
    BY <2>4 DEF a, b, c
<1> HIDE DEF k, c
<1>5. /\ l * c \in Nat /\ (l - 1) * c \in Nat /\ k * c \in Nat /\ (k - 1) * c \in Nat
      /\ l * c = (l - 1) * c + c
  <2>1. l - 1 \in Nat /\ k - 1 \in Nat
    BY <1>1, <1>2
  <2> QED
    BY <1>1, <1>2, <2>1
<1>6. l < k => l * c <= (k - 1) * c
  <2> SUFFICES ASSUME l < k
               PROVE  l * c <= (k - 1) * c
    OBVIOUS
  <2>1. PICK d \in Nat : k - 1 = l + d
    <3>1. (k - 1) - l \in Nat /\ k - 1 = l + ((k - 1) - l)
      BY <1>1, <1>2
    <3> QED
      BY <3>1
  <2>2. (l + d) * c = l * c + d * c /\ d * c \in Nat
    BY <1>2, <2>1
  <2> QED
    BY <1>5, <2>1, <2>2
<1>7. l > k => (l - 1) * c >= k * c
  <2> SUFFICES ASSUME l > k
               PROVE  (l - 1) * c >= k * c
    OBVIOUS
  <2>1. PICK d \in Nat : l - 1 = k + d
    <3>1. (l - 1) - k \in Nat /\ l - 1 = k + ((l - 1) - k)
      BY <1>1, <1>2
    <3> QED
      BY <3>1
  <2>2. (k + d) * c = k * c + d * c /\ d * c \in Nat
    BY <1>1, <1>2, <2>1
  <2> QED
    BY <1>5, <2>1, <2>2
<1> DEFINE a == l * c
           b == (l - 1) * c
           e == k * c
           f == (k - 1) * c
<1>8. /\ a \in Nat /\ b \in Nat /\ e \in Nat /\ f \in Nat /\ a = b + c
      /\ f <= n /\ n < e
      /\ l < k => a <= f
      /\ l > k => b >= e
      /\ l = k => a = e /\ b = f
  BY <1>1, <1>5, <1>6, <1>7
<1>9. /\ SentTo(l) = IF n >= a THEN c ELSE IF n <= b THEN 0 ELSE n - b
      /\ SentTo(l)' = IF n + 1 >= a THEN c ELSE IF n + 1 <= b THEN 0 ELSE n + 1 - b
  BY <1>3, <1>4
<1> HIDE DEF a, b, e, f
<1>10. SentTo(l) \in Nat
  BY <1>2, <1>8, <1>9
<1>11. SentTo(l)' = IF l = k THEN SentTo(l) + 1 ELSE SentTo(l)
  <2>1. CASE l = k
    BY <1>1, <1>2, <1>8, <1>9, <2>1
  <2>2. CASE l < k
    BY <1>1, <1>2, <1>8, <1>9, <2>2
  <2>3. CASE l > k
    BY <1>1, <1>2, <1>8, <1>9, <2>3
  <2> QED
    BY <1>1, <1>2, <2>1, <2>2, <2>3
<1> QED
  BY <1>10, <1>11 DEF k

LEMMA SentToType ==
  ASSUME NEW l \in Leaves, sampler.sent \in Nat
  PROVE  /\ SentTo(l) \in Nat
         /\ sampler.sent = 0 => SentTo(l) = 0
         /\ sampler.sent = Streams => SentTo(l) = NClassifiers
<1> DEFINE c == NClassifiers
           n == sampler.sent
<1>1. c \in Nat \ {0} /\ l \in Nat /\ l >= 1 /\ l <= NLeaves /\ NLeaves \in Nat
  BY Constants DEF Leaves
<1>2. SentTo(l) = IF n >= l * c THEN c ELSE IF n <= (l - 1) * c THEN 0 ELSE n - (l - 1) * c
  BY DEF SentTo
<1> HIDE DEF c, n
<1>3. l * c \in Nat /\ (l - 1) * c \in Nat /\ l * c = (l - 1) * c + c
  <2>1. l - 1 \in Nat
    BY <1>1
  <2> QED
    BY <1>1, <2>1
<1>4. l * c <= NLeaves * c
  <2>1. PICK d \in Nat : NLeaves = l + d
    <3>1. NLeaves - l \in Nat /\ NLeaves = l + (NLeaves - l)
      BY <1>1
    <3> QED
      BY <3>1
  <2>2. (l + d) * c = l * c + d * c /\ d * c \in Nat
    BY <1>1, <2>1
  <2> QED
    BY <1>3, <2>1, <2>2
<1>5. n \in Nat
  BY DEF n
<1> DEFINE a == l * c
           b == (l - 1) * c
<1>6. a \in Nat /\ b \in Nat /\ a = b + c /\ (n = Streams => n >= a)
  BY <1>1, <1>3, <1>4 DEF Streams, c
<1> HIDE DEF a, b
<1>7. SentTo(l) = IF n >= a THEN c ELSE IF n <= b THEN 0 ELSE n - b
  BY <1>2 DEF a, b
<1> QED
  BY <1>1, <1>5, <1>6, <1>7 DEF n, c

LEMMA EndedFinite ==
  ASSUME NEW l \in Leaves
  PROVE  /\ IsFiniteSet(EndedAt(l)) /\ Cardinality(EndedAt(l)) \in Nat
         /\ EndedAt(l) = {} <=> Cardinality(EndedAt(l)) = 0
         /\ EndedAt(l) = 1..NClassifiers => Cardinality(EndedAt(l)) = NClassifiers
<1>1. NClassifiers \in Nat \ {0}
  BY Constants
<1>2. IsFiniteSet(1..NClassifiers) /\ Cardinality(1..NClassifiers) = NClassifiers
  BY <1>1, FS_Interval
<1>3. EndedAt(l) \in SUBSET (1..NClassifiers)
  BY DEF EndedAt
<1> HIDE DEF EndedAt
<1>4. IsFiniteSet(EndedAt(l))
  BY <1>2, <1>3, FS_Subset
<1> QED
  BY <1>2, <1>4, FS_CardinalityType, FS_EmptySet

\* Only receiving a packet makes a classifier have its end marker.
LEMMA HadMarkerNext ==
  ASSUME Inv, [Next]_vars, NEW u \in Threads
  PROVE  IF Receive(u)
           THEN ~ HadMarker(u) /\ (HadMarker(u)' <=> IsMarker(Head(examples[u[1]])))
           ELSE HadMarker(u)' <=> HadMarker(u)
<1>1. /\ classifier \in [Threads -> [pc : {"receive", "check", "wait", "identify", "done"},
                                     packet : Packet, at : Nat \ {0}]]
      /\ classifier[u].packet \in Packet /\ ClassifierInv(u)
      /\ root.st.nextId \in Nat
  BY StepType, RootType DEF Inv, TypeOK, PacketInv, RootInv
<1>2. ~ IsMarker(<<>>)
  BY DEF IsMarker
<1>3. CASE Receive(u)
  <2>1. classifier[u].pc = "receive" /\ classifier[u].packet = <<>>
    BY <1>1, <1>3 DEF Receive, ClassifierInv
  <2>2. classifier'[u].pc = "check" /\ classifier'[u].packet = Head(examples[u[1]])
    BY <1>1, <1>3 DEF Receive
  <2> QED
    BY <1>2, <1>3, <2>1, <2>2 DEF HadMarker
<1>4. CASE ~ Receive(u)
  <2> SUFFICES HadMarker(u)' <=> HadMarker(u)
    BY <1>4
  <2>1. CASE classifier'[u] = classifier[u]
    BY <2>1 DEF HadMarker
  <2>2. CASE ForwardEos(u)
    <3>1. IsMarker(classifier[u].packet)
      BY <2>2, EosForwarded
    <3>2. classifier'[u].pc = "done"
      BY <1>1, <2>2 DEF ForwardEos
    <3> QED
      BY <3>1, <3>2 DEF HadMarker
  <2>3. CASE Check(u) \/ Wake(u)
    <3>1. /\ classifier[u].pc \in {"check", "wait"}
          /\ classifier'[u].packet = classifier[u].packet
          /\ classifier'[u].pc # "done"
      BY <1>1, <2>3, ChecksOn
    <3> QED
      BY <3>1 DEF HadMarker
  <2>4. CASE IdentifyNext(u)
    <3>1. PICK p \in Packet : Labelled(u, p)
      BY <2>4, IdentifyLabels
    <3>2. ~ IsMarker(p) /\ ~ IsMarker(classifier[u].packet) /\ classifier[u].pc # "done"
      BY <1>1, <3>1, DataNotMarker DEF Labelled
    <3>3. /\ classifier'[u].pc # "done"
          /\ classifier'[u].packet \in {<<>>, p}
      BY <1>1, <3>1 DEF Labelled
    <3> QED
      BY <1>2, <3>2, <3>3 DEF HadMarker
  <2>5. ASSUME NEW t \in Threads, t # u, Classifier(t)
        PROVE  classifier'[u] = classifier[u]
    <3>1. CASE Check(t) \/ Wake(t)
      BY <1>1, <2>5, <3>1, ChecksOn
    <3>2. CASE IdentifyNext(t)
      <4>1. PICK p \in Packet : Labelled(t, p)
        BY <3>2, IdentifyLabels
      <4> QED
        BY <1>1, <2>5, <4>1 DEF Labelled
    <3> QED
      BY <1>1, <2>5, <3>1, <3>2 DEF Classifier, Receive, ForwardEos
  <2> QED
    BY <1>4, <2>1, <2>2, <2>3, <2>4, <2>5, ClassifierSame DEF Classifier
<1> QED
  BY <1>3, <1>4

LEMMA MarkersQueue ==
  ASSUME NEW q \in Seq(Packet), NEW n, MarkersLast(q, n)
  PROVE  /\ n \in Nat /\ Len(q) \in Nat
         /\ \A p \in Packet : IsMarker(p) => MarkersLast(Append(q, p), n + 1)
         /\ \A p \in Packet : ~ IsMarker(p) /\ n = 0 => MarkersLast(Append(q, p), 0)
         /\ q # <<>> => /\ Len(Tail(q)) = Len(q) - 1 /\ Head(q) \in Packet
                        /\ IF IsMarker(Head(q))
                             THEN n = Len(q) /\ MarkersLast(Tail(q), n - 1)
                             ELSE n < Len(q) /\ MarkersLast(Tail(q), n)
<1>1. n \in Nat /\ Len(q) \in Nat /\ n <= Len(q) /\ DOMAIN q = 1..Len(q)
  BY DEF MarkersLast
<1>2. \A i \in 1..Len(q) : IsMarker(q[i]) <=> i > Len(q) - n
  BY <1>1 DEF MarkersLast
<1>3. ASSUME NEW p \in Packet
      PROVE  /\ IsMarker(p) => MarkersLast(Append(q, p), n + 1)
             /\ ~ IsMarker(p) /\ n = 0 => MarkersLast(Append(q, p), 0)
  <2> DEFINE r == Append(q, p)
  <2>1. /\ Len(r) = Len(q) + 1 /\ DOMAIN r = 1..(Len(q) + 1)
        /\ \A i \in 1..Len(q) : r[i] = q[i]
        /\ r[Len(q) + 1] = p
    BY <1>1
  <2> HIDE DEF r
  <2>2. \A i \in DOMAIN r : i \in 1..Len(q) \/ (i = Len(q) + 1 /\ r[i] = p)
    BY <1>1, <2>1
  <2>3. IsMarker(p) => MarkersLast(r, n + 1)
    <3> SUFFICES ASSUME IsMarker(p), NEW i \in DOMAIN r
                 PROVE  IsMarker(r[i]) <=> i > Len(r) - (n + 1)
      BY <1>1, <2>1 DEF MarkersLast
    <3>1. CASE i \in 1..Len(q)
      <4>1. i > Len(r) - (n + 1) <=> i > Len(q) - n
        BY <1>1, <2>1, <3>1
      <4> QED
        BY <1>2, <2>1, <3>1, <4>1
    <3>2. CASE i = Len(q) + 1 /\ r[i] = p
      <4>1. i > Len(r) - (n + 1)
        BY <1>1, <2>1, <3>2
      <4> QED
        BY <3>2, <4>1
    <3> QED
      BY <2>2, <3>1, <3>2
  <2>4. ~ IsMarker(p) /\ n = 0 => MarkersLast(r, 0)
    <3> SUFFICES ASSUME ~ IsMarker(p), n = 0, NEW i \in DOMAIN r
                 PROVE  IsMarker(r[i]) <=> i > Len(r) - 0
      BY <1>1, <2>1 DEF MarkersLast
    <3>1. ~ (i > Len(r) - 0)
      BY <1>1, <2>1
    <3>2. CASE i \in 1..Len(q)
      <4>1. ~ (i > Len(q) - n)
        BY <1>1, <3>2
      <4> QED
        BY <1>2, <2>1, <3>1, <3>2, <4>1
    <3>3. CASE i = Len(q) + 1 /\ r[i] = p
      BY <3>1, <3>3
    <3> QED
      BY <2>2, <3>2, <3>3
  <2> QED
    BY <2>3, <2>4 DEF r
<1>4. ASSUME q # <<>>
      PROVE  /\ Len(Tail(q)) = Len(q) - 1 /\ Head(q) \in Packet
             /\ IF IsMarker(Head(q))
                  THEN n = Len(q) /\ MarkersLast(Tail(q), n - 1)
                  ELSE n < Len(q) /\ MarkersLast(Tail(q), n)
  <2> DEFINE r == Tail(q)
             h == Head(q)
  <2>1. /\ Len(q) > 0 /\ h = q[1] /\ h \in Packet
        /\ Len(r) = Len(q) - 1 /\ DOMAIN r = 1..(Len(q) - 1)
        /\ \A i \in 1..(Len(q) - 1) : r[i] = q[i + 1] /\ i + 1 \in 1..Len(q)
    BY <1>1, <1>4
  <2> HIDE DEF r, h
  <2>2. IsMarker(h) <=> 1 > Len(q) - n
    BY <1>1, <1>2, <2>1
  <2>3. \A i \in DOMAIN r : IsMarker(r[i]) <=> i + 1 > Len(q) - n
    BY <1>2, <2>1
  <2>4. CASE IsMarker(h)
    <3>1. n = Len(q)
      <4>1. 1 > Len(q) - n
        BY <2>2, <2>4
      <4> DEFINE m == Len(q)
      <4>2. m \in Nat /\ n \in Nat /\ n <= m /\ 1 > m - n
        BY <1>1, <4>1
      <4> HIDE DEF m
      <4>3. n = m
        BY <4>2
      <4> QED
        BY <4>3 DEF m
    <3>2. \A i \in DOMAIN r : i + 1 > Len(q) - n /\ i > Len(r) - (n - 1)
      BY <1>1, <2>1, <3>1
    <3>3. \A i \in DOMAIN r : IsMarker(r[i]) <=> i > Len(r) - (n - 1)
      BY <2>3, <3>2
    <3>4. n - 1 \in 0..Len(r)
      BY <1>1, <2>1, <3>1
    <3> QED
      BY <2>1, <2>4, <3>1, <3>3, <3>4 DEF MarkersLast, r, h
  <2>5. CASE ~ IsMarker(h)
    <3>1. n < Len(q)
      BY <1>1, <2>1, <2>2, <2>5
    <3>2. \A i \in DOMAIN r : i + 1 > Len(q) - n <=> i > Len(r) - n
      BY <1>1, <2>1
    <3>3. \A i \in DOMAIN r : IsMarker(r[i]) <=> i > Len(r) - n
      BY <2>3, <3>2
    <3>4. n \in 0..Len(r)
      BY <1>1, <2>1, <3>1
    <3> QED
      BY <2>1, <2>5, <3>1, <3>3, <3>4 DEF MarkersLast, r, h
  <2> QED
    BY <2>4, <2>5
<1> QED
  BY <1>1, <1>3, <1>4

LEMMA SamplerMarkers ==
  ASSUME Inv, Sampler, NEW l \in Leaves
  PROVE  LeafMarkers(l)'
<1>1. /\ TypeOK /\ sampler.sent \in Nat /\ sampler.sent \in 0..Streams
      /\ examples \in [Leaves -> Seq(Packet)] /\ examples[l] \in Seq(Packet)
      /\ MarkersLast(examples[l], Left(l))
      /\ EndedAt(l) # {} => Left(l) = Len(examples[l])
      /\ Cardinality(EndedAt(l)) \in Nat
      /\ SentTo(l) \in Nat /\ Left(l) \in Nat
      /\ EndedAt(l) = {} <=> Cardinality(EndedAt(l)) = 0
  BY StepType, EndedFinite, SentToType, MarkersQueue DEF Inv, TypeOK, MarkerInv, LeafMarkers
<1>2. EndedAt(l)' = EndedAt(l)
  BY DEF Sampler, ReadCluster, CastLine, ReadExample, EndOfInput, SendEos, leafVars, EndedAt,
         HadMarker
<1>3. CASE examples' = examples /\ (ReadCluster \/ CastLine \/ ReadExample \/ EndOfInput)
  <2>1. sampler'.sent = sampler.sent
    BY <1>1, <1>3 DEF ReadCluster, CastLine, ReadExample, EndOfInput, TypeOK
  <2>2. SentTo(l)' = SentTo(l)
    BY <2>1 DEF SentTo
  <2> QED
    BY <1>1, <1>2, <1>3, <2>2 DEF LeafMarkers, Left
<1>4. CASE \E k \in Leaves, p \in Packet : SentPacket(k, p) /\ Good(p, root'.st.nextId, EndIds')
  <2>1. PICK k \in Leaves, p \in Packet : SentPacket(k, p) /\ Good(p, root'.st.nextId, EndIds')
    BY <1>4
  <2>2. /\ examples'[k] = Append(examples[k], p)
        /\ \A j \in Leaves : j # k => examples'[j] = examples[j]
    BY <1>1, <2>1, PutIn DEF SentPacket
  <2>3. CASE ~ IsMarker(p) /\ sampler.pc = "read" /\ sampler'.sent = sampler.sent
    <3>1. sampler.sent = 0 /\ SentTo(l)' = SentTo(l)
      BY <2>3 DEF Inv, PhaseInv, Reading, SentTo
    <3>2. SentTo(l) = 0
      BY <1>1, <3>1, SentToType
    <3>3. Left(l) = 0 /\ EndedAt(l) = {} /\ Left(l)' = 0
      BY <1>1, <1>2, <3>1, <3>2 DEF Left
    <3>4. MarkersLast(examples'[l], 0)
      BY <1>1, <2>1, <2>2, <2>3, <3>3, MarkersQueue
    <3> QED
      BY <1>2, <3>3, <3>4 DEF LeafMarkers
  <2>4. CASE /\ SendEos /\ k = (sampler.sent \div NClassifiers) + 1
             /\ sampler'.sent = sampler.sent + 1 /\ IsMarker(p)
    <3>1. sampler.sent < Streams
      BY <2>4 DEF SendEos, Inv, PhaseInv
    <3>2. SentTo(l)' = IF l = k THEN SentTo(l) + 1 ELSE SentTo(l)
      BY <1>1, <2>4, <3>1, SentToNext
    <3>3. CASE l = k
      <4>1. Left(l)' = Left(l) + 1
        BY <1>1, <1>2, <3>2, <3>3 DEF Left
      <4>2. MarkersLast(examples'[l], Left(l) + 1) /\ Len(examples'[l]) = Len(examples[l]) + 1
        <5>1. examples'[l] = Append(examples[l], p)
          BY <2>2, <3>3
        <5>2. MarkersLast(Append(examples[l], p), Left(l) + 1)
          BY <1>1, <2>1, <2>4, MarkersQueue
        <5>3. Len(Append(examples[l], p)) = Len(examples[l]) + 1
          BY <1>1, <2>1
        <5> QED
          BY <5>1, <5>2, <5>3
      <4> QED
        BY <1>1, <1>2, <4>1, <4>2 DEF LeafMarkers
    <3>4. CASE l # k
      BY <1>1, <1>2, <2>2, <3>2, <3>4 DEF LeafMarkers, Left
    <3> QED
      BY <3>3, <3>4
  <2>5. CASE ReadExample /\ p = Append(sampler.packet, [id |-> root.st.nextId, label |-> StackLabel])
             /\ sampler'.sent = sampler.sent
    <3>1. Data(p, root.st.nextId + 1) /\ sampler.pc = "read"
      BY <2>5, DataAppend, StepType, RootType DEF ReadExample, Inv, RootInv, PacketInv
    <3> QED
      BY <2>3, <2>5, <3>1, DataNotMarker
  <2>6. CASE EndOfInput /\ p = sampler.packet /\ p # <<>> /\ sampler'.sent = sampler.sent
    <3>1. Data(p, root.st.nextId) /\ sampler.pc = "read"
      BY <2>6 DEF EndOfInput, Inv, PacketInv
    <3> QED
      BY <2>3, <2>6, <3>1, DataNotMarker
  <2> QED
    BY <2>1, <2>4, <2>5, <2>6 DEF SentPacket
<1> QED
  BY <1>3, <1>4, SamplerSends

LEMMA ReceiveMarkers ==
  ASSUME Inv, [Next]_vars, NEW t \in Threads, Receive(t), NEW l \in Leaves
  PROVE  LeafMarkers(l)'
<1> DEFINE k == t[1]
           p == Head(examples[k])
<1>1. /\ TypeOK /\ examples \in [Leaves -> Seq(Packet)] /\ examples[l] \in Seq(Packet)
      /\ MarkersLast(examples[l], Left(l))
      /\ EndedAt(l) # {} => Left(l) = Len(examples[l])
      /\ IsFiniteSet(EndedAt(l)) /\ Cardinality(EndedAt(l)) \in Nat
      /\ Left(l) \in Nat /\ Len(examples[l]) \in Nat
      /\ SentTo(l) \in Nat
  BY StepType, EndedFinite, SentToType, MarkersQueue DEF Inv, TypeOK, MarkerInv, LeafMarkers
<1>2. k \in Leaves /\ t[2] \in 1..NClassifiers /\ t = <<k, t[2]>>
  BY ThreadType
<1>3. /\ examples[k] # <<>> /\ examples' = [examples EXCEPT ![k] = Tail(@)]
      /\ SentTo(l)' = SentTo(l)
  BY DEF Receive, rootVars, SentTo
<1>4. /\ examples'[k] = Tail(examples[k])
      /\ \A j \in Leaves : j # k => examples'[j] = examples[j]
  BY <1>1, <1>2, <1>3, TakenFrom
<1>5. \A i \in 1..NClassifiers : <<l, i>> \in Threads
  BY DEF Threads
<1>6. ~ HadMarker(t) /\ (HadMarker(t)' <=> IsMarker(p))
  BY HadMarkerNext
<1>7. \A u \in Threads : u # t => (HadMarker(u)' <=> HadMarker(u))
  <2> SUFFICES ASSUME NEW u \in Threads, u # t
               PROVE  HadMarker(u)' <=> HadMarker(u)
    OBVIOUS
  <2>1. classifier'[u] = classifier[u]
    BY DEF Receive, Inv, TypeOK
  <2> QED
    BY <2>1 DEF HadMarker
<1> HIDE DEF k, p
<1>8. CASE l # k
  <2>1. \A i \in 1..NClassifiers : HadMarker(<<l, i>>)' <=> HadMarker(<<l, i>>)
    <3>1. \A i \in 1..NClassifiers : <<l, i>> # t
      BY <1>2, <1>8
    <3> QED
      BY <1>5, <1>7, <3>1
  <2>2. EndedAt(l)' = EndedAt(l)
    BY <2>1 DEF EndedAt
  <2> QED
    BY <1>1, <1>3, <1>4, <1>8, <2>2 DEF LeafMarkers, Left
<1>9. CASE l = k
  <2>1. \A i \in 1..NClassifiers :
          HadMarker(<<l, i>>)' <=> HadMarker(<<l, i>>) \/ (i = t[2] /\ IsMarker(p))
    <3> SUFFICES ASSUME NEW i \in 1..NClassifiers
                 PROVE  HadMarker(<<l, i>>)' <=> HadMarker(<<l, i>>) \/ (i = t[2] /\ IsMarker(p))
      OBVIOUS
    <3>1. CASE i = t[2]
      <4>1. <<l, i>> = t
        BY <1>2, <1>9, <3>1
      <4> QED
        BY <1>6, <3>1, <4>1
    <3>2. CASE i # t[2]
      <4>1. <<l, i>> # t
        BY <1>2, <1>9, <3>2
      <4> QED
        BY <1>5, <1>7, <3>2, <4>1
    <3> QED
      BY <3>1, <3>2
  <2>2. t[2] \notin EndedAt(l)
    BY <1>2, <1>6, <1>9 DEF EndedAt
  <2>3. examples[l] # <<>> /\ examples'[l] = Tail(examples[l]) /\ p = Head(examples[l])
    BY <1>3, <1>4, <1>9 DEF p
  <2>4. /\ Len(examples'[l]) = Len(examples[l]) - 1
        /\ IF IsMarker(p)
             THEN Left(l) = Len(examples[l]) /\ MarkersLast(examples'[l], Left(l) - 1)
             ELSE Left(l) < Len(examples[l]) /\ MarkersLast(examples'[l], Left(l))
    BY <1>1, <2>3, MarkersQueue
  <2>5. CASE IsMarker(p)
    <3>1. EndedAt(l)' = EndedAt(l) \cup {t[2]}
      BY <1>2, <2>1, <2>5 DEF EndedAt
    <3>2. Cardinality(EndedAt(l) \cup {t[2]}) = Cardinality(EndedAt(l)) + 1
      BY <1>1, <2>2, FS_AddElement
    <3>3. Left(l)' = Left(l) - 1
      BY <1>1, <1>3, <3>1, <3>2 DEF Left
    <3> QED
      BY <1>1, <2>4, <2>5, <3>3 DEF LeafMarkers
  <2>6. CASE ~ IsMarker(p)
    <3>1. EndedAt(l)' = EndedAt(l)
      BY <2>1, <2>6 DEF EndedAt
    <3>2. EndedAt(l) = {}
      BY <1>1, <2>4, <2>6
    <3>3. Left(l)' = Left(l)
      BY <1>3, <3>1 DEF Left
    <3> QED
      BY <2>4, <2>6, <3>1, <3>2, <3>3 DEF LeafMarkers
  <2> QED
    BY <2>5, <2>6
<1> QED
  BY <1>8, <1>9

LEMMA LeafMarkersNext ==
  ASSUME Inv, [Next]_vars, NEW l \in Leaves
  PROVE  LeafMarkers(l)'
<1>1. CASE Sampler
  BY <1>1, SamplerMarkers
<1>2. CASE \E t \in Threads : Receive(t)
  BY <1>2, ReceiveMarkers
<1>3. CASE ~ Sampler /\ ~ (\E t \in Threads : Receive(t))
  <2>1. examples' = examples /\ sampler' = sampler
    BY <1>3, ExamplesSame, SamplerSame
  <2>2. \A i \in 1..NClassifiers : HadMarker(<<l, i>>)' <=> HadMarker(<<l, i>>)
    <3>1. \A i \in 1..NClassifiers : <<l, i>> \in Threads
      BY DEF Threads
    <3> QED
      BY <1>3, <3>1, HadMarkerNext
  <2>3. EndedAt(l)' = EndedAt(l) /\ SentTo(l)' = SentTo(l)
    BY <2>1, <2>2 DEF EndedAt, SentTo
  <2> QED
    BY <2>1, <2>3 DEF Inv, MarkerInv, LeafMarkers, Left
<1> QED
  BY <1>1, <1>2, <1>3

LEMMA DeliveredIs ==
  ASSUME TypeOK
  PROVE  /\ IsFiniteSet(Threads) /\ Cardinality(Threads) = Streams
         /\ IsFiniteSet(Delivered) /\ Cardinality(Delivered) \in Nat
         /\ Cardinality(Delivered) = Streams => Delivered = Threads
<1>1. NLeaves \in Nat /\ NClassifiers \in Nat
  BY Constants
<1>2. /\ IsFiniteSet(Leaves) /\ Cardinality(Leaves) = NLeaves
      /\ IsFiniteSet(1..NClassifiers) /\ Cardinality(1..NClassifiers) = NClassifiers
  BY <1>1, FS_Interval DEF Leaves
<1>3. IsFiniteSet(Threads) /\ Cardinality(Threads) = Streams
  BY <1>2, FS_Product DEF Threads, Streams
<1>4. Delivered \in SUBSET Threads
  BY DEF Delivered
<1> HIDE DEF Delivered
<1>5. IsFiniteSet(Delivered) /\ (Cardinality(Threads) = Cardinality(Delivered) => Delivered = Threads)
  BY <1>3, <1>4, FS_Subset
<1> QED
  BY <1>3, <1>5, FS_CardinalityType

\* A packet of thread t joins those on their way to the detector.
LEMMA ResultsMarkers ==
  ASSUME Inv, [Next]_vars, NEW t \in Threads,
         \/ ForwardEos(t)
         \/ IdentifyNext(t) /\ results' # results
  PROVE  /\ \E p \in Packet :
              /\ results' = [results EXCEPT ![t] = Append(@, p)]
              /\ IsMarker(p) <=> ForwardEos(t)
         /\ classifier[t].pc # "done" /\ (classifier'[t].pc = "done" <=> ForwardEos(t))
         /\ \A u \in Threads : u # t => classifier'[u] = classifier[u]
<1>1. /\ classifier \in [Threads -> [pc : {"receive", "check", "wait", "identify", "done"},
                                     packet : Packet, at : Nat \ {0}]]
      /\ root.st.nextId \in Nat
  BY RootType DEF Inv, TypeOK, RootInv
<1>2. CASE ForwardEos(t)
  <2>1. /\ classifier[t].packet \in Packet /\ IsMarker(classifier[t].packet)
        /\ classifier[t].pc = "check"
        /\ results' = [results EXCEPT ![t] = Append(@, classifier[t].packet)]
        /\ classifier' = [classifier EXCEPT ![t] = [pc |-> "done", packet |-> <<>>, at |-> 1]]
    BY <1>2, EosForwarded
  <2>2. classifier'[t].pc = "done" /\ \A u \in Threads : u # t => classifier'[u] = classifier[u]
    BY <1>1, <2>1
  <2> QED
    BY <1>2, <2>1, <2>2
<1>3. CASE IdentifyNext(t) /\ results' # results
  <2>1. PICK p \in Packet : Labelled(t, p)
    BY <1>3, IdentifyLabels
  <2>2. /\ results' = [results EXCEPT ![t] = Append(@, p)]
        /\ classifier' = [classifier EXCEPT ![t] =
                            [pc |-> "receive", packet |-> <<>>, at |-> 1]]
        /\ classifier[t].pc = "identify"
    BY <1>3, <2>1 DEF Labelled
  <2>3. ~ IsMarker(p)
    BY <1>1, <2>1, DataNotMarker DEF Labelled
  <2>4. ~ ForwardEos(t)
    BY <2>2 DEF ForwardEos
  <2>5. classifier'[t].pc = "receive" /\ \A u \in Threads : u # t => classifier'[u] = classifier[u]
    BY <1>1, <2>2
  <2> QED
    BY <2>1, <2>2, <2>3, <2>4, <2>5
<1> QED
  BY <1>2, <1>3

\* No other step ends a classifier.
LEMMA DoneSame ==
  ASSUME Inv, [Next]_vars, NEW u \in Threads, ~ ForwardEos(u)
  PROVE  classifier'[u].pc = "done" <=> classifier[u].pc = "done"
<1>1. classifier \in [Threads -> [pc : {"receive", "check", "wait", "identify", "done"},
                                  packet : Packet, at : Nat \ {0}]]
  BY DEF Inv, TypeOK
<1>2. ASSUME NEW t \in Threads, Classifier(t), ~ ForwardEos(t)
      PROVE  /\ classifier[t].pc # "done" /\ classifier'[t].pc # "done"
             /\ t # u => classifier'[u] = classifier[u]
  <2>1. CASE Receive(t)
    BY <1>1, <2>1 DEF Receive
  <2>2. CASE Check(t) \/ Wake(t)
    BY <1>1, <2>2, ChecksOn
  <2>3. CASE IdentifyNext(t)
    <3>1. PICK p \in Packet : Labelled(t, p)
      BY <2>3, IdentifyLabels
    <3> QED
      BY <1>1, <3>1 DEF Labelled
  <2> QED
    BY <1>2, <2>1, <2>2, <2>3 DEF Classifier
<1>3. ASSUME NEW t \in Threads, ForwardEos(t)
      PROVE  classifier'[u] = classifier[u]
  <2>1. t # u /\ classifier' = [classifier EXCEPT ![t] = [pc |-> "done", packet |-> <<>>, at |-> 1]]
    BY <1>3 DEF ForwardEos
  <2> QED
    BY <1>1, <2>1
<1> QED
  BY <1>2, <1>3, ClassifierSame

\* In a queue of results the end marker, when its classifier is done, is the last.
MarkerLast(q, done) == \A n \in DOMAIN q : IsMarker(q[n]) <=> done /\ n = Len(q)

LEMMA ResultQueue ==
  ASSUME NEW q \in Seq(Packet)
  PROVE  /\ MarkerLast(q, FALSE) =>
              \A p \in Packet : MarkerLast(Append(q, p), IsMarker(p)) /\ Append(q, p) # <<>>
         /\ \A done \in BOOLEAN : MarkerLast(q, done) /\ q # <<>> =>
              /\ MarkerLast(Tail(q), done) /\ Head(q) \in Packet
              /\ IsMarker(Head(q)) <=> done /\ Tail(q) = <<>>
<1>1. Len(q) \in Nat /\ DOMAIN q = 1..Len(q)
  OBVIOUS
<1>2. ASSUME MarkerLast(q, FALSE), NEW p \in Packet
      PROVE  MarkerLast(Append(q, p), IsMarker(p)) /\ Append(q, p) # <<>>
  <2> DEFINE r == Append(q, p)
  <2>1. /\ Len(r) = Len(q) + 1 /\ r # <<>>
        /\ \A n \in DOMAIN r : \/ n \in DOMAIN q /\ r[n] = q[n] /\ n # Len(r)
                               \/ n = Len(r) /\ r[n] = p
    BY <1>1
  <2> HIDE DEF r
  <2>2. MarkerLast(r, IsMarker(p))
    BY <1>2, <2>1 DEF MarkerLast
  <2> QED
    BY <2>1, <2>2 DEF r
<1>3. ASSUME NEW done \in BOOLEAN, MarkerLast(q, done), q # <<>>
      PROVE  /\ MarkerLast(Tail(q), done) /\ Head(q) \in Packet
             /\ IsMarker(Head(q)) <=> done /\ Tail(q) = <<>>
  <2> DEFINE r == Tail(q)
             h == Head(q)
  <2>1. /\ 1 \in DOMAIN q /\ h = q[1] /\ h \in Packet
        /\ r = <<>> <=> 1 = Len(q)
        /\ \A n \in DOMAIN r : /\ n + 1 \in DOMAIN q /\ r[n] = q[n + 1]
                               /\ n = Len(r) <=> n + 1 = Len(q)
    <3>1. Len(q) > 0 /\ h = q[1] /\ h \in Packet /\ r \in Seq(Packet)
      BY <1>1, <1>3
    <3>2. /\ Len(r) = Len(q) - 1 /\ DOMAIN r = 1..(Len(q) - 1)
          /\ \A n \in 1..(Len(q) - 1) : r[n] = q[n + 1]
      BY <1>1, <1>3
    <3> DEFINE m == Len(q)
    <3>3. m \in Nat /\ m > 0 /\ DOMAIN q = 1..m /\ Len(r) = m - 1 /\ DOMAIN r = 1..(m - 1)
      BY <1>1, <3>1, <3>2
    <3>4. r = <<>> <=> Len(r) = 0
      <4> HIDE DEF r
      <4> QED
        BY <3>1
    <3> HIDE DEF r, h, m
    <3>5. \A n \in DOMAIN r : n + 1 \in DOMAIN q /\ (n = Len(r) <=> n + 1 = m)
      BY <3>3
    <3>6. 1 \in DOMAIN q /\ (r = <<>> <=> 1 = m)
      BY <3>3, <3>4
    <3> QED
      BY <3>1, <3>2, <3>3, <3>5, <3>6 DEF m
  <2> HIDE DEF r, h
  <2>2. MarkerLast(r, done) /\ (IsMarker(h) <=> done /\ r = <<>>)
    BY <1>3, <2>1 DEF MarkerLast
  <2> QED
    BY <2>1, <2>2 DEF r, h
<1> QED
  BY <1>2, <1>3

LEMMA ThreadMarkersNext ==
  ASSUME Inv, [Next]_vars, NEW u \in Threads
  PROVE  ThreadMarkers(u)'
<1> DEFINE Done == classifier[u].pc = "done"
<1>1. /\ results \in [Threads -> Seq(Packet)] /\ results[u] \in Seq(Packet)
      /\ MarkerLast(results[u], Done)
  BY DEF Inv, TypeOK, MarkerInv, ThreadMarkers, MarkerLast
<1> SUFFICES MarkerLast(results'[u], classifier'[u].pc = "done")
  BY DEF ThreadMarkers, MarkerLast
<1>2. CASE results'[u] = results[u] /\ ~ ForwardEos(u)
  BY <1>1, <1>2, DoneSame DEF MarkerLast
<1>3. ASSUME NEW t \in Threads, ForwardEos(t) \/ (IdentifyNext(t) /\ results' # results)
      PROVE  MarkerLast(results'[u], classifier'[u].pc = "done")
  <2>1. PICK p \in Packet : /\ results' = [results EXCEPT ![t] = Append(@, p)]
                            /\ IsMarker(p) <=> ForwardEos(t)
    BY <1>3, ResultsMarkers
  <2>2. /\ results'[t] = Append(results[t], p)
        /\ \A v \in Threads : v # t => results'[v] = results[v]
    BY <1>1, <2>1, PutIn
  <2>3. CASE t = u
    <3>1. ~ Done /\ (classifier'[u].pc = "done" <=> IsMarker(p))
      BY <1>3, <2>1, <2>3, ResultsMarkers
    <3>2. MarkerLast(results[u], FALSE)
      BY <1>1, <3>1 DEF MarkerLast
    <3>3. MarkerLast(Append(results[u], p), IsMarker(p))
      BY <1>1, <2>1, <3>2, ResultQueue
    <3> QED
      BY <2>2, <2>3, <3>1, <3>3 DEF MarkerLast
  <2>4. CASE t # u
    <3>1. classifier'[u] = classifier[u]
      BY <1>3, <2>4, ResultsMarkers
    <3> QED
      BY <1>1, <2>2, <2>4, <3>1
  <2> QED
    BY <2>3, <2>4
<1>4. CASE TakePacket
  <2>1. PICK t \in Threads : results[t] # <<>> /\ results' = [results EXCEPT ![t] = Tail(@)]
    BY <1>4 DEF TakePacket
  <2>2. /\ results'[t] = Tail(results[t])
        /\ \A v \in Threads : v # t => results'[v] = results[v]
    BY <1>1, <2>1, TakenFrom
  <2>3. classifier' = classifier /\ Done \in BOOLEAN
    BY <1>4 DEF TakePacket, leafVars
  <2> HIDE DEF Done
  <2>4. CASE t = u
    <3>1. MarkerLast(Tail(results[u]), Done)
      BY <1>1, <2>1, <2>3, <2>4, ResultQueue
    <3> QED
      BY <2>2, <2>3, <2>4, <3>1 DEF Done
  <2> QED
    BY <1>1, <2>2, <2>3, <2>4 DEF Done
<1>5. CASE results' = results /\ ~ ForwardEos(u)
  BY <1>2, <1>5
<1>6. ForwardEos(u) => \E t \in Threads : ForwardEos(t) \/ (IdentifyNext(t) /\ results' # results)
  OBVIOUS
<1>7. CASE \E t \in Threads : ForwardEos(t) \/ (IdentifyNext(t) /\ results' # results)
  BY <1>3, <1>7
<1>8. CASE ~ (\E t \in Threads : ForwardEos(t) \/ (IdentifyNext(t) /\ results' # results))
  <2>1. results' = results \/ TakePacket
    <3>1. CASE \E t \in Threads : IdentifyNext(t)
      BY <1>8, <3>1
    <3>2. CASE ~ (\E t \in Threads : IdentifyNext(t))
      <4>1. ~ (\E t \in Threads : ForwardEos(t) \/ IdentifyNext(t))
        BY <1>8, <3>2
      <4> QED
        BY <4>1, ResultsSame
    <3> QED
      BY <3>1, <3>2
  <2> QED
    BY <1>4, <1>5, <1>6, <1>8, <2>1
<1> QED
  BY <1>7, <1>8

LEMMA DeliveredNext ==
  ASSUME Inv, [Next]_vars
  PROVE  Cardinality(Delivered') =
           IF IsMarker(detector'.packet) THEN detector'.ended + 1 ELSE detector'.ended
<1>1. /\ TypeOK /\ results \in [Threads -> Seq(Packet)] /\ detector.packet \in Packet
      /\ \A u \in Threads : results[u] \in Seq(Packet)
      /\ Cardinality(Delivered) =
           IF IsMarker(detector.packet) THEN detector.ended + 1 ELSE detector.ended
      /\ IsFiniteSet(Delivered) /\ Cardinality(Delivered) \in Nat /\ detector.ended \in Nat
      /\ ~ IsMarker(<<>>)
  BY StepType, DeliveredIs DEF Inv, TypeOK, MarkerInv, IsMarker
<1>2. \A u \in Threads : MarkerLast(results[u], classifier[u].pc = "done")
  BY DEF Inv, MarkerInv, ThreadMarkers, MarkerLast
<1>3. CASE TakePacket
  <2>1. PICK t \in Threads :
          /\ results[t] # <<>> /\ results' = [results EXCEPT ![t] = Tail(@)]
          /\ detector' = [detector EXCEPT !.packet = Head(results[t]), !.at = 1]
    BY <1>3 DEF TakePacket
  <2> DEFINE p == Head(results[t])
  <2>2. /\ results'[t] = Tail(results[t])
        /\ \A u \in Threads : u # t => results'[u] = results[u]
    BY <1>1, <2>1, TakenFrom
  <2>3. classifier' = classifier /\ detector.packet = <<>>
    BY <1>3 DEF TakePacket, leafVars
  <2>4. /\ detector' = [detector EXCEPT !.packet = p, !.at = 1]
        /\ \A done \in BOOLEAN : MarkerLast(results[t], done) =>
             (IsMarker(p) <=> done /\ results'[t] = <<>>)
    BY <1>1, <2>1, <2>2, ResultQueue
  <2> HIDE DEF p
  <2>5. detector'.packet = p /\ detector'.ended = detector.ended
    BY <1>1, <2>4 DEF TypeOK
  <2>6. IsMarker(p) <=> classifier[t].pc = "done" /\ results'[t] = <<>>
    BY <1>2, <2>1, <2>4
  <2>7. t \notin Delivered /\ t \in Threads
    BY <2>1 DEF Delivered
  <2>8. \A u \in Threads : u \in Delivered' <=> u \in Delivered \/ (u = t /\ IsMarker(p))
    <3> SUFFICES ASSUME NEW u \in Threads
                 PROVE  u \in Delivered' <=> u \in Delivered \/ (u = t /\ IsMarker(p))
      OBVIOUS
    <3>1. /\ u \in Delivered' <=> classifier[u].pc = "done" /\ results'[u] = <<>>
          /\ u \in Delivered <=> classifier[u].pc = "done" /\ results[u] = <<>>
      BY <2>3 DEF Delivered
    <3>2. CASE u = t
      BY <2>6, <2>7, <3>1, <3>2
    <3>3. CASE u # t
      BY <2>2, <3>1, <3>3
    <3> QED
      BY <3>2, <3>3
  <2>9. Delivered \subseteq Threads /\ Delivered' \subseteq Threads
    BY DEF Delivered
  <2>10. CASE IsMarker(p)
    <3>1. Delivered' = Delivered \cup {t}
      BY <2>7, <2>8, <2>9, <2>10
    <3>2. Cardinality(Delivered \cup {t}) = Cardinality(Delivered) + 1
      BY <1>1, <2>7, FS_AddElement
    <3> QED
      BY <1>1, <2>3, <2>5, <2>10, <3>1, <3>2
  <2>11. CASE ~ IsMarker(p)
    <3>1. Delivered' = Delivered
      BY <2>8, <2>9, <2>11
    <3> QED
      BY <1>1, <2>3, <2>5, <2>11, <3>1
  <2> QED
    BY <2>10, <2>11
<1>4. CASE ~ TakePacket
  <2>1. Delivered' = Delivered
    <3>1. ASSUME NEW u \in Threads
          PROVE  (classifier'[u].pc = "done" /\ results'[u] = <<>>)
                   <=> (classifier[u].pc = "done" /\ results[u] = <<>>)
      <4>1. CASE results'[u] = results[u] /\ ~ ForwardEos(u)
        BY <4>1, DoneSame
      <4>2. CASE ~ (results'[u] = results[u] /\ ~ ForwardEos(u))
        <5>1. PICK t \in Threads : \/ ForwardEos(t)
                                   \/ IdentifyNext(t) /\ results' # results
          <6>1. CASE ForwardEos(u)
            BY <6>1
          <6>2. CASE results' # results
            <7>1. \E t \in Threads : ForwardEos(t) \/ IdentifyNext(t)
              BY <1>4, <6>2, ResultsSame
            <7> QED
              BY <6>2, <7>1
          <6> QED
            BY <4>2, <6>1, <6>2
        <5>2. PICK p \in Packet : results' = [results EXCEPT ![t] = Append(@, p)]
          BY <5>1, ResultsMarkers
        <5>3. /\ results'[t] = Append(results[t], p)
              /\ \A v \in Threads : v # t => results'[v] = results[v]
          BY <1>1, <5>1, <5>2, PutIn
        <5>4. CASE u = t
          <6>1. results'[u] # <<>> /\ classifier[u].pc # "done"
            BY <1>1, <5>1, <5>3, <5>4, ResultsMarkers
          <6> QED
            BY <6>1
        <5>5. CASE u # t
          BY <5>1, <5>3, <5>5, ResultsMarkers
        <5> QED
          BY <5>4, <5>5
      <4> QED
        BY <4>1, <4>2
    <3> QED
      BY <3>1 DEF Delivered
  <2>2. CASE ~ Detector
    BY <1>1, <2>1, <2>2, DetectorSame
  <2>3. CASE TakeExample
    <3>1. detector.packet # <<>> /\ (TakeMarker \/ TakeKnown \/ TakeUnknown)
      BY <2>3, TakeCases
    <3>2. CASE TakeMarker
      <4>1. IsMarker(detector.packet) /\ detector.at = Len(detector.packet)
        BY <3>1, <3>2, AtExample DEF TakeMarker
      <4>2. detector'.packet = <<>> /\ detector'.ended = detector.ended + 1
        BY <1>1, <3>2, <4>1 DEF TakeMarker, Advanced, TypeOK
      <4> QED
        BY <1>1, <2>1, <4>1, <4>2
    <3>3. CASE TakeKnown
      <4>1. ~ IsMarker(detector.packet)
        BY <3>1, <3>3, AtExample DEF TakeKnown
      <4>2. detector'.packet \in {<<>>, detector.packet} /\ detector'.ended = detector.ended
        BY <1>1, <3>3 DEF TakeKnown, Advanced, TypeOK
      <4> QED
        BY <1>1, <2>1, <4>1, <4>2
    <3>4. CASE TakeUnknown
      <4>1. detector'.packet = detector.packet /\ detector'.ended = detector.ended
        BY <1>1, <3>4 DEF TakeUnknown, TypeOK
      <4> QED
        BY <1>1, <2>1, <4>1
    <3> QED
      BY <3>1, <3>2, <3>3, <3>4
  <2>4. CASE CastNew \/ EndOfStreams
    <3>1. detector'.packet = detector.packet /\ detector'.ended = detector.ended
      BY <1>1, <2>4 DEF CastNew, EndOfStreams, TypeOK
    <3> QED
      BY <1>1, <2>1, <3>1
  <2>5. CASE PrintUnknown
    <3>1. ~ IsMarker(detector.packet)
      <4>1. detector.packet # <<>> /\ detector.packet[detector.at].label = Unk
        BY <2>5 DEF PrintUnknown, Inv, PacketInv, DetectorInv
      <4> QED
        BY <4>1, AtExample, Constants
    <3>2. detector'.packet \in {<<>>, detector.packet} /\ detector'.ended = detector.ended
      BY <1>1, <2>5 DEF PrintUnknown, Advanced, TypeOK
    <3> QED
      BY <1>1, <2>1, <3>1, <3>2
  <2> QED
    BY <1>4, <2>2, <2>3, <2>4, <2>5 DEF Detector
<1> QED
  BY <1>3, <1>4

LEMMA InitMarker ==
  ASSUME Init
  PROVE  MarkerInv
<1>1. /\ \A l \in Leaves : examples[l] = <<>>
      /\ \A t \in Threads : /\ results[t] = <<>> /\ classifier[t].pc = "receive"
                            /\ classifier[t].packet = <<>>
      /\ sampler.sent = 0 /\ detector.packet = <<>> /\ detector.ended = 0
      /\ ~ IsMarker(<<>>)
  BY DEF Init, IsMarker
<1>2. ASSUME NEW l \in Leaves
      PROVE  LeafMarkers(l)
  <2>1. SentTo(l) = 0
    BY <1>1, SentToType
  <2>2. EndedAt(l) = {}
    <3>1. \A i \in 1..NClassifiers : <<l, i>> \in Threads
      BY DEF Threads
    <3> QED
      BY <1>1, <3>1 DEF EndedAt, HadMarker
  <2>3. Left(l) = 0
    BY <2>1, <2>2, FS_EmptySet DEF Left
  <2> QED
    BY <1>1, <2>2, <2>3 DEF LeafMarkers, MarkersLast
<1>3. \A t \in Threads : ThreadMarkers(t)
  BY <1>1 DEF ThreadMarkers
<1>4. Delivered = {}
  BY <1>1 DEF Delivered
<1> QED
  BY <1>1, <1>2, <1>3, <1>4, FS_EmptySet DEF MarkerInv

LEMMA MarkerNext ==
  ASSUME Inv, [Next]_vars
  PROVE  MarkerInv'
BY LeafMarkersNext, ThreadMarkersNext, DeliveredNext DEF MarkerInv

LEMMA InvNext ==
  ASSUME Inv, [Next]_vars
  PROVE  Inv'
BY TypeNext, RootNext, PhaseNext, PacketNext, CastNext, PlaceNext, MarkerNext DEF Inv

-----------------------------------------------------------------------------
\* Inv holds in every state: the step of each thread, of all its operations,
\* keeps it.
THEOREM Invariance == Spec => []Inv
<1>1. Init => Inv
  BY InitType, InitRoot, InitPhase, InitPacket, InitCast, InitPlace, InitMarker DEF Inv
<1>2. Inv /\ [Next]_vars => Inv'
  BY InvNext
<1> QED
  BY <1>1, <1>2, PTL DEF Spec

\* The state of the threads, the queues and the models has its types: no counter
\* leaves its range, and the replicas are states of minas.
THEOREM TypeCorrect == Spec => []TypeOK
<1>1. Inv => TypeOK
  BY DEF Inv
<1> QED
  BY <1>1, Invariance, PTL

\* m_receiver's assertion cl->id == model->size never fails, and the model of a
\* leaf begins with the clusters of rank 0 in their order, whatever the timing of
\* broadcasts.
THEOREM ReplicasArePrefixes == Spec => []ReplicaIsPrefix
<1>1. Inv => ReplicaIsPrefix
  <2> SUFFICES ASSUME Inv, NEW l \in Leaves
               PROVE  /\ receiver[l].pc # "failed"
                      /\ N(l) <= M
                      /\ \A i \in DOMAIN leaf[l].model :
                           /\ leaf[l].model[i].id = root.st.model[i].id
                           /\ leaf[l].model[i].label = root.st.model[i].label
    BY DEF ReplicaIsPrefix, N, M
  <2>1. /\ LeafCasts(l) /\ M \in Nat /\ N(l) \in Nat /\ DOMAIN leaf[l].model = 1..N(l)
        /\ leaf[l].model \in Seq(Cluster)
    BY StepType, RootType DEF Inv, CastInv, RootInv, N
  <2>2. ASSUME NEW i \in DOMAIN leaf[l].model
        PROVE  /\ leaf[l].model[i].id = root.st.model[i].id
               /\ leaf[l].model[i].label = root.st.model[i].label
    <3>1. /\ i \in 1..M /\ i - 1 < M /\ (i - 1) + 1 = i
          /\ SameCluster(leaf[l].model[i], i - 1, root.st.model)
      BY <2>1, <2>2 DEF LeafCasts
    <3>2. root.st.model[i].id = i - 1
      BY <3>1 DEF Inv, RootInv
    <3> QED
      BY <3>1, <3>2 DEF SameCluster, M
  <2> QED
    BY <2>1, <2>2 DEF LeafCasts, ReceiverInv
<1> QED
  BY <1>1, Invariance, PTL

LEMMA PlacesAre ==
  ASSUME NEW id, NEW z
  PROVE  z \in Places(id) <=>
           \/ z = <<"sampler">> /\ WithSampler(id)
           \/ z = <<"detector">> /\ WithDetector(id)
           \/ z = <<"answered">> /\ id \in answered
           \/ \E t \in Threads : z = <<"classifier", t>> /\ id \in Ids(classifier[t].packet)
           \/ \E l \in Leaves : \E n \in DOMAIN examples[l] :
                z = <<"examples", l, n>> /\ id \in Ids(examples[l][n])
           \/ \E t \in Threads : \E n \in DOMAIN results[t] :
                z = <<"results", t, n>> /\ id \in Ids(results[t][n])
<1> DEFINE A == {<<"sampler">> : x \in {y \in {sampler.packet} : id \in Ids(y)}}
           B == {<<"detector">> : x \in {y \in {detector} : id \in Ids(y.packet)
                                                            /\ id \notin answered}}
           C == {<<"answered">> : x \in answered \cap {id}}
           D == {<<"classifier", t>> : t \in {u \in Threads : id \in Ids(classifier[u].packet)}}
           E == UNION {{<<"examples", l, n>> : n \in {m \in DOMAIN examples[l] :
                                                        id \in Ids(examples[l][m])}}
                         : l \in Leaves}
           F == UNION {{<<"results", t, n>> : n \in {m \in DOMAIN results[t] :
                                                       id \in Ids(results[t][m])}}
                         : t \in Threads}
<1>1. z \in A <=> z = <<"sampler">> /\ WithSampler(id)
  BY DEF WithSampler
<1>2. z \in B <=> z = <<"detector">> /\ WithDetector(id)
  BY DEF WithDetector
<1>3. z \in C <=> z = <<"answered">> /\ id \in answered
  OBVIOUS
<1>4. z \in D <=> \E t \in Threads : z = <<"classifier", t>> /\ id \in Ids(classifier[t].packet)
  OBVIOUS
<1>5. z \in E <=> \E l \in Leaves : \E n \in DOMAIN examples[l] :
                    z = <<"examples", l, n>> /\ id \in Ids(examples[l][n])
  OBVIOUS
<1>6. z \in F <=> \E t \in Threads : \E n \in DOMAIN results[t] :
                    z = <<"results", t, n>> /\ id \in Ids(results[t][n])
  OBVIOUS
<1>7. Places(id) = A \cup B \cup C \cup D \cup E \cup F
  BY DEF Places
<1> HIDE DEF A, B, C, D, E, F
<1> QED
  BY <1>1, <1>2, <1>3, <1>4, <1>5, <1>6, <1>7

LEMMA OnePlace ==
  ASSUME NEW id, At(id)
  PROVE  \E z : Places(id) = {z}
<1> SUFFICES \E z : \A y : y \in Places(id) <=> y = z
  <2>1. PICK z : \A y : y \in Places(id) <=> y = z
    OBVIOUS
  <2>2. Places(id) = {z}
    BY <2>1
  <2> QED
    BY <2>2
<1> DEFINE Classified(y) == \E t \in Threads : y = <<"classifier", t>>
                                                 /\ id \in Ids(classifier[t].packet)
           Sampled(y) == \E l \in Leaves : \E n \in DOMAIN examples[l] :
                           y = <<"examples", l, n>> /\ id \in Ids(examples[l][n])
           Resulted(y) == \E t \in Threads : \E n \in DOMAIN results[t] :
                            y = <<"results", t, n>> /\ id \in Ids(results[t][n])
<1>1. \A y : y \in Places(id) <=>
           \/ y = <<"sampler">> /\ WithSampler(id)
           \/ y = <<"detector">> /\ WithDetector(id)
           \/ y = <<"answered">> /\ id \in answered
           \/ Classified(y) \/ Sampled(y) \/ Resulted(y)
  BY PlacesAre
<1>2. /\ ~ WithClassifiers(id) => \A y : ~ Classified(y)
      /\ ~ InExamples(id) => \A y : ~ Sampled(y)
      /\ ~ InResults(id) => \A y : ~ Resulted(y)
  BY DEF WithClassifiers, InExamples, InResults, InQueue
<1>3. WithClassifiers(id) => \E z : \A y : Classified(y) <=> y = z
  <2> SUFFICES ASSUME WithClassifiers(id)
               PROVE  \E z : \A y : Classified(y) <=> y = z
    OBVIOUS
  <2>1. PICK t \in Threads : id \in Ids(classifier[t].packet)
    BY DEF WithClassifiers
  <2>2. \A u \in Threads : id \in Ids(classifier[u].packet) => u = t
    BY <2>1 DEF At, OnceThere
  <2>3. \A y : Classified(y) <=> y = <<"classifier", t>>
    BY <2>1, <2>2
  <2> QED
    BY <2>3
<1>4. InExamples(id) => \E z : \A y : Sampled(y) <=> y = z
  <2> SUFFICES ASSUME InExamples(id)
               PROVE  \E z : \A y : Sampled(y) <=> y = z
    OBVIOUS
  <2>1. PICK l \in Leaves : InQueue(id, examples[l])
    BY DEF InExamples
  <2>2. PICK n \in DOMAIN examples[l] : id \in Ids(examples[l][n])
    BY <2>1 DEF InQueue
  <2>3. \A k \in Leaves : \A m \in DOMAIN examples[k] :
          id \in Ids(examples[k][m]) => k = l /\ m = n
    BY <2>1, <2>2 DEF At, OnceThere, OnceIn, InQueue
  <2>4. \A y : Sampled(y) <=> y = <<"examples", l, n>>
    BY <2>1, <2>2, <2>3
  <2> QED
    BY <2>4
<1>5. InResults(id) => \E z : \A y : Resulted(y) <=> y = z
  <2> SUFFICES ASSUME InResults(id)
               PROVE  \E z : \A y : Resulted(y) <=> y = z
    OBVIOUS
  <2>1. PICK t \in Threads : InQueue(id, results[t])
    BY DEF InResults
  <2>2. PICK n \in DOMAIN results[t] : id \in Ids(results[t][n])
    BY <2>1 DEF InQueue
  <2>3. \A u \in Threads : \A m \in DOMAIN results[u] :
          id \in Ids(results[u][m]) => u = t /\ m = n
    BY <2>1, <2>2 DEF At, OnceThere, OnceIn, InQueue
  <2>4. \A y : Resulted(y) <=> y = <<"results", t, n>>
    BY <2>1, <2>2, <2>3
  <2> QED
    BY <2>4
<1>6. WithDetector(id) => id \notin answered
  BY DEF WithDetector
<1> HIDE DEF Classified, Sampled, Resulted
<1>7. CASE WithSampler(id) \/ WithDetector(id) \/ id \in answered
  <2>1. /\ ~ WithClassifiers(id) /\ ~ InExamples(id) /\ ~ InResults(id)
        /\ WithSampler(id) => ~ WithDetector(id) /\ id \notin answered
    BY <1>7 DEF At, OneKind
  <2>2. \A y : ~ Classified(y) /\ ~ Sampled(y) /\ ~ Resulted(y)
    BY <1>2, <2>1
  <2>3. CASE WithSampler(id)
    <3> DEFINE z == <<"sampler">>
    <3>1. \A y : y \in Places(id) <=> y = z
      BY <1>1, <2>1, <2>2, <2>3
    <3> HIDE DEF z
    <3> QED
      BY <3>1
  <2>4. CASE ~ WithSampler(id) /\ WithDetector(id)
    <3> DEFINE z == <<"detector">>
    <3>1. \A y : y \in Places(id) <=> y = z
      BY <1>1, <1>6, <2>2, <2>4
    <3> HIDE DEF z
    <3> QED
      BY <3>1
  <2>5. CASE ~ WithSampler(id) /\ ~ WithDetector(id) /\ id \in answered
    <3> DEFINE z == <<"answered">>
    <3>1. \A y : y \in Places(id) <=> y = z
      BY <1>1, <2>2, <2>5
    <3> HIDE DEF z
    <3> QED
      BY <3>1
  <2> QED
    BY <1>7, <2>3, <2>4, <2>5
<1>8. CASE ~ (WithSampler(id) \/ WithDetector(id) \/ id \in answered)
  <2>1. /\ WithClassifiers(id) \/ InExamples(id) \/ InResults(id)
        /\ WithClassifiers(id) => ~ InExamples(id) /\ ~ InResults(id)
        /\ InExamples(id) => ~ InResults(id)
    BY <1>8 DEF At, SomePlace, OneKind
  <2>2. \A y : y \in Places(id) <=> Classified(y) \/ Sampled(y) \/ Resulted(y)
    BY <1>1, <1>8
  <2>3. CASE WithClassifiers(id)
    <3>1. \A y : y \in Places(id) <=> Classified(y)
      BY <1>2, <2>1, <2>2, <2>3
    <3>2. PICK z : \A y : Classified(y) <=> y = z
      BY <1>3, <2>3
    <3> QED
      BY <3>1, <3>2
  <2>4. CASE ~ WithClassifiers(id) /\ InExamples(id)
    <3>1. \A y : y \in Places(id) <=> Sampled(y)
      BY <1>2, <2>1, <2>2, <2>4
    <3>2. PICK z : \A y : Sampled(y) <=> y = z
      BY <1>4, <2>4
    <3> QED
      BY <3>1, <3>2
  <2>5. CASE ~ WithClassifiers(id) /\ ~ InExamples(id)
    <3>1. \A y : y \in Places(id) <=> Resulted(y)
      BY <1>2, <2>1, <2>2, <2>5
    <3>2. PICK z : \A y : Resulted(y) <=> y = z
      BY <1>5, <2>1, <2>5
    <3> QED
      BY <3>1, <3>2
  <2> QED
    BY <2>3, <2>4, <2>5
<1> QED
  BY <1>7, <1>8

\* From the sampler to the output an example is in exactly one place: none is
\* lost, none is answered twice, whatever leaves, classifiers and packets there
\* are.
THEOREM ExamplesAreInOnePlace == Spec => []InOnePlace
<1>1. Inv => InOnePlace
  <2> SUFFICES ASSUME Inv, NEW id \in 0..(root.st.nextId - 1)
               PROVE  Cardinality(Places(id)) = 1
    BY DEF InOnePlace
  <2>1. At(id)
    BY DEF Inv, PlaceInv, At
  <2>2. PICK z : Places(id) = {z}
    BY <2>1, OnePlace
  <2> QED
    BY <2>2, FS_Singleton
<1> QED
  BY <1>1, Invariance, PTL

\* When all threads have joined no message is left over, every example that was
\* read is answered, and the replicas have the size of rank 0's model, which
\* MPI_Gather expects.
THEOREM NothingIsLeft == Spec => []NothingLeft
<1>1. Inv => NothingLeft
  <2> SUFFICES ASSUME Inv, Joined
               PROVE  /\ answered = 0..(root.st.nextId - 1)
                      /\ \A l \in Leaves : /\ casts[l] = <<>> /\ examples[l] = <<>>
                                           /\ N(l) = M
    BY DEF NothingLeft, N, M
  <2>1. /\ TypeOK /\ sampler.pc = "done" /\ detector.pc = "done"
        /\ \A l \in Leaves : receiver[l].pc = "done"
        /\ \A t \in Threads : classifier[t].pc = "done"
    BY DEF Joined, Inv
  <2>2. /\ sampler.sent = Streams /\ detector.ended = Streams
        /\ detector.packet = <<>> /\ sampler.packet = <<>>
        /\ \A t \in Threads : classifier[t].packet = <<>>
    <3>1. sampler.sent = Streams /\ detector.ended = Streams
      BY <2>1 DEF Inv, PhaseInv
    <3>2. detector.packet = <<>>
      BY <3>1, Constants DEF Inv, PhaseInv
    <3>3. sampler.packet = <<>>
      BY <2>1 DEF Inv, PacketInv
    <3>4. \A t \in Threads : classifier[t].packet = <<>>
      BY <2>1 DEF Inv, PacketInv, ClassifierInv
    <3> QED
      BY <3>1, <3>2, <3>3, <3>4
  <2>3. \A t \in Threads : results[t] = <<>>
    <3>1. Cardinality(Delivered) = Streams
      BY <2>2 DEF Inv, MarkerInv, IsMarker
    <3>2. Delivered = Threads
      BY <2>1, <3>1, DeliveredIs
    <3> QED
      BY <3>2 DEF Delivered
  <2>4. ASSUME NEW l \in Leaves
        PROVE  examples[l] = <<>>
    <3>1. EndedAt(l) = 1..NClassifiers
      <4>1. \A i \in 1..NClassifiers : <<l, i>> \in Threads
        BY DEF Threads
      <4> QED
        BY <2>1, <4>1 DEF EndedAt, HadMarker
    <3>2. SentTo(l) = NClassifiers
      BY <2>1, <2>2, SentToType, StepType
    <3>3. Cardinality(EndedAt(l)) = NClassifiers /\ NClassifiers \in Nat \ {0}
      BY <3>1, EndedFinite, Constants
    <3>4. Left(l) = 0
      BY <3>2, <3>3 DEF Left
    <3>5. 1 \in EndedAt(l)
      BY <3>1, <3>3
    <3>6. Len(examples[l]) = 0 /\ examples[l] \in Seq(Packet)
      BY <2>1, <3>4, <3>5, StepType DEF Inv, MarkerInv, LeafMarkers
    <3> QED
      BY <3>6
  <2>5. ASSUME NEW l \in Leaves
        PROVE  casts[l] = <<>> /\ N(l) = M
    <3>1. LeafCasts(l) /\ N(l) = M /\ M \in Nat /\ casts[l] \in Seq(Cast)
      BY <2>1, StepType, RootType DEF Inv, CastInv, LeafCasts, ReceiverInv, RootInv
    <3>2. Sent = 2 * M + 1 /\ Heard(l) = 2 * N(l) + 1
      BY <2>1 DEF Sent, Heard
    <3>3. Len(casts[l]) = 0
      BY <3>1, <3>2 DEF LeafCasts, Line
    <3> QED
      BY <3>1, <3>3
  <2>6. ASSUME NEW id \in 0..(root.st.nextId - 1)
        PROVE  id \in answered
    <3>1. SomePlace(id) /\ Ids(<<>>) = {}
      BY DEF Inv, PlaceInv, Ids
    <3>2. /\ ~ WithSampler(id) /\ ~ InExamples(id) /\ ~ WithClassifiers(id)
          /\ ~ InResults(id) /\ ~ WithDetector(id)
      BY <2>2, <2>3, <2>4, <3>1
      DEF WithSampler, InExamples, WithClassifiers, InResults, WithDetector, InQueue
    <3> QED
      BY <3>1, <3>2 DEF SomePlace
  <2>7. answered \subseteq 0..(root.st.nextId - 1)
    BY DEF Inv, PlaceInv
  <2> QED
    BY <2>4, <2>5, <2>6, <2>7
<1> QED
  BY <1>1, Invariance, PTL

-----------------------------------------------------------------------------
\* ND has an instance of MainRank of its own.  Its operators are those of this
\* module.
LEMMA SameLined ==
  ASSUME NEW r, NEW label, NEW isSleep
  PROVE  ND!Lined(r, label, isSleep) = Lined(r, label, isSleep)
BY DEF Lined, AddCluster, UInt, TouchedAt,
       ND!Lined, ND!AddCluster, ND!UInt, ND!TouchedAt

LEMMA SameLabelRuns ==
  ASSUME NEW l, NEW n
  PROVE  ND!LabelRuns(l, n) = LabelRuns(l, n)
BY Zenon DEF LabelRuns, Cardinality, ND!LabelRuns, ND!Cardinality

LEMMA SameGrown ==
  ASSUME NEW s, NEW split, NEW novelties, NEW run
  PROVE  ND!Grown(s, split, novelties, run) = Grown(s, split, novelties, run)
BY Zenon DEF Grown, Labellings, LabelsOf, Born, Cardinality,
             ND!Grown, ND!Labellings, ND!LabelsOf, ND!Born, ND!Cardinality

LEMMA SameClustering ==
  ASSUME NEW unknowns
  PROVE  ND!Clustering(unknowns) = Clustering(unknowns)
BY Zenon DEF Clustering, Kept, Members, Cardinality,
             ND!Clustering, ND!Kept, ND!Members, ND!Cardinality

LEMMA SameDetectionsOf ==
  ASSUME NEW s, NEW split
  PROVE  ND!DetectionsOf(s, split) = DetectionsOf(s, split)
<1>1. ASSUME NEW x
      PROVE  x \in ND!DetectionsOf(s, split) <=> x \in DetectionsOf(s, split)
  <2>1. x \in ND!DetectionsOf(s, split) <=>
          \E novelties \in SUBSET (1..split.nNew),
             run \in LabelRuns(s.nextLabel, split.nNew) :
            x \in ND!Grown(s, split, novelties, run)
    BY SameLabelRuns DEF ND!DetectionsOf
  <2>2. x \in DetectionsOf(s, split) <=>
          \E novelties \in SUBSET (1..split.nNew),
             run \in LabelRuns(s.nextLabel, split.nNew) :
            x \in Grown(s, split, novelties, run)
    BY DEF DetectionsOf
  <2> QED
    BY <2>1, <2>2, SameGrown
<1> QED
  BY <1>1

LEMMA SameNoveltyDetection ==
  ASSUME NEW s
  PROVE  ND!NoveltyDetection(s) = NoveltyDetection(s)
<1>1. ASSUME NEW x
      PROVE  x \in ND!NoveltyDetection(s) <=> x \in NoveltyDetection(s)
  BY SameClustering, SameDetectionsOf DEF ND!NoveltyDetection, NoveltyDetection
<1> QED
  BY <1>1

LEMMA SameAfterDetection ==
  ASSUME NEW nd
  PROVE  ND!AfterDetection(nd) = AfterDetection(nd)
BY Zenon DEF AfterDetection, Exit, Cleaned, NoRound, RemoveResolved, Removed,
             Collected, DropWhenFull, Full, UnknownsMax, Trigger, Cardinality,
             ND!AfterDetection, ND!Exit, ND!Cleaned, ND!NoRound,
             ND!RemoveResolved, ND!Removed, ND!Collected, ND!DropWhenFull,
             ND!Full, ND!UnknownsMax, ND!Trigger, ND!Cardinality

LEMMA SameHandleUnknown ==
  ASSUME NEW s, NEW id
  PROVE  ND!HandleUnknown(s, id) = HandleUnknown(s, id)
<1> DEFINE t == [s EXCEPT !.currId = id, !.unknowns = @ \cup {id}]
           found == NoveltyDetection(RestoreSleep(t))
<1>1. ND!RoundDue(t) = RoundDue(t)
  BY Zenon DEF RoundDue, UDiffExceeds, UInt, UnknownsMax, Trigger, Cardinality,
               ND!RoundDue, ND!UDiffExceeds, ND!UInt, ND!UnknownsMax,
               ND!Trigger, ND!Cardinality
<1>2. ND!RestoreSleep(t) = RestoreSleep(t)
  BY Zenon DEF RestoreSleep, UInt, TouchedAt, ND!RestoreSleep, ND!UInt, ND!TouchedAt
<1>3. {ND!NoRound(u, ND!Full(t)) : u \in ND!DropWhenFull(t)}
        = {NoRound(u, Full(t)) : u \in DropWhenFull(t)}
  BY Zenon DEF DropWhenFull, Full, NoRound, UnknownsMax, Trigger, Cardinality,
               ND!DropWhenFull, ND!Full, ND!NoRound, ND!UnknownsMax,
               ND!Trigger, ND!Cardinality
<1>4. UNION {ND!AfterDetection(nd) : nd \in found}
        = UNION {AfterDetection(nd) : nd \in found}
  <2> HIDE DEF found
  <2> QED
    BY SameAfterDetection
<1>5. ND!HandleUnknown(s, id) =
        IF ~ RoundDue(t) THEN {NoRound(u, Full(t)) : u \in DropWhenFull(t)}
        ELSE UNION {ND!AfterDetection(nd) : nd \in found}
  BY Zenon, <1>1, <1>2, <1>3, SameNoveltyDetection DEF ND!HandleUnknown
<1> QED
  BY Zenon, <1>4, <1>5 DEF HandleUnknown

LEMMA SameHandled ==
  ASSUME NEW r, NEW id
  PROVE  ND!Handled(r, id) = Handled(r, id)
BY Zenon, SameHandleUnknown DEF Handled, Observed, ND!Handled, ND!Observed

-----------------------------------------------------------------------------
\* What ND sees of the threads: the examples that have not come back, and
\* whether the sampler reads.
InHand(id) == /\ detector.pc \in {"struct", "center", "failed"}
              /\ id = detector.packet[detector.at].id

InFlight == {id \in 0..(root.st.nextId - 1) : id \notin answered /\ ~ InHand(id)}

\* A step that leaves all of this alone is a stutter.
LEMMA Stutters ==
  ASSUME root' = root, answered' = answered, Reading' = Reading,
         \A id : InHand(id)' <=> InHand(id)
  PROVE  UNCHANGED ND!vars
<1>1. InFlight' = InFlight
  BY DEF InFlight
<1> QED
  BY <1>1 DEF ND!vars, InFlight, InHand, Reading

LEMMA InitIsND ==
  ASSUME Init
  PROVE  ND!Init
<1>1. root = ND!EmptyRoot
  BY DEF Init, EmptyRoot, EmptyState, ND!EmptyRoot, ND!EmptyState
<1>2. root.st.nextId = 0
  BY DEF Init, EmptyRoot, EmptyState
<1>3. InFlight = {}
  BY <1>2 DEF InFlight
<1>4. Reading
  BY DEF Init, Reading
<1> QED
  BY <1>1, <1>3, <1>4 DEF ND!Init, InFlight, InHand, Reading

\* The example in hand has an id the sampler gave out, and is not answered.
LEMMA HandIsOld ==
  ASSUME Inv, NEW id, InHand(id)
  PROVE  id \in 0..(root.st.nextId - 1) /\ id \notin answered
<1>1. detector.pc \in {"struct", "center"} /\ id = detector.packet[detector.at].id
  BY DEF InHand, Inv, PhaseInv
<1>2. detector.packet # <<>> /\ detector.packet[detector.at].label = Unk
  BY <1>1 DEF Inv, PacketInv, DetectorInv
<1>3. /\ detector.at \in DOMAIN detector.packet /\ id \in Nat
      /\ Data(detector.packet, root.st.nextId) /\ id < root.st.nextId
  BY <1>1, <1>2, AtExample, Constants
<1>4. id \notin answered
  BY <1>1, <1>2, <1>3, StepType DEF Inv, PacketInv, DetectorInv
<1>5. root.st.nextId \in Nat
  BY RootType DEF Inv, RootInv
<1> QED
  BY <1>3, <1>4, <1>5

\* The steps of the sampler.
LEMMA SamplerIsND ==
  ASSUME Inv, Sampler
  PROVE  [ND!Next]_(ND!vars)
<1>1. /\ root \in Root /\ root.st.nextId \in Nat
      /\ answered \subseteq 0..(root.st.nextId - 1)
      /\ TypeOK
  BY RootType DEF Inv, RootInv, PlaceInv
<1>2. CASE ReadCluster
  <2>1. PICK label \in LineLabels, isSleep \in StackSleep :
          root' = Lined(root, label, isSleep)
    BY <1>2 DEF ReadCluster
  <2>2. root'.st.nextId = root.st.nextId /\ root.st.nextId = 0
    BY <1>1, <1>2, <2>1 DEF ReadCluster, Lined, AddCluster, Root, MinasState
  <2>3. Reading /\ Reading' /\ Len(root.st.model) < MaxLines
    BY <1>1, <1>2 DEF ReadCluster, Reading, TypeOK
  <2>4. InFlight = {} /\ InFlight' = {}
    BY <2>2 DEF InFlight
  <2>5. root' = ND!Lined(root, label, isSleep)
    BY <2>1, SameLined
  <2>6. ND!ClusterLine
    BY <2>2, <2>3, <2>4, <2>5 DEF ND!ClusterLine, InFlight, InHand, Reading
  <2> QED
    BY <2>6 DEF ND!Next
<1>3. CASE CastLine
  <2>1. Reading /\ Reading'
    BY <1>1, <1>3 DEF CastLine, Reading, TypeOK
  <2>2. root' = root /\ answered' = answered /\ detector' = detector
    BY <1>3 DEF CastLine
  <2> QED
    BY <2>1, <2>2, Stutters DEF InHand
<1>4. CASE ReadExample
  <2>1. root' = ND!Numbered(root) /\ root.st.nextId < MaxExamples
    BY <1>4 DEF ReadExample, Numbered, ND!Numbered
  <2>2. root'.st.nextId = root.st.nextId + 1
    BY <1>1, <1>4 DEF ReadExample, Numbered, Root, MinasState
  <2>3. Reading /\ Reading'
    <3>1. sampler.pc = "read" /\ sampler'.pc = "read"
      BY <1>1, <1>4 DEF ReadExample, TypeOK
    <3> QED
      BY <3>1 DEF Reading
  <2>4. detector' = detector /\ answered' = answered
    BY <1>4 DEF ReadExample
  <2>5. ~ InHand(root.st.nextId)
    BY HandIsOld, <1>1
  <2>6. InFlight' = InFlight \cup {root.st.nextId}
    BY <1>1, <2>2, <2>4, <2>5 DEF InFlight, InHand
  <2>7. ND!ExampleLine
    BY <2>1, <2>3, <2>6 DEF ND!ExampleLine, InFlight, InHand, Reading
  <2> QED
    BY <2>7 DEF ND!Next
<1>5. CASE EndOfInput
  <2>1. Reading /\ ~ Reading'
    <3>1. sampler.pc = "read" /\ sampler'.pc = "eos"
      BY <1>1, <1>5 DEF EndOfInput, TypeOK
    <3> QED
      BY <3>1 DEF Reading
  <2>2. root' = root /\ InFlight' = InFlight
    BY <1>5 DEF EndOfInput, InFlight, InHand
  <2>3. ND!EndOfInput
    BY <2>1, <2>2 DEF ND!EndOfInput, InFlight, InHand, Reading
  <2> QED
    BY <2>3 DEF ND!Next
<1>6. CASE SendEos
  <2>1. sampler.pc = "eos" /\ sampler'.pc \in {"eos", "done"}
    BY <1>1, <1>6 DEF SendEos, TypeOK
  <2>2. root' = root /\ answered' = answered /\ detector' = detector
    BY <1>6 DEF SendEos
  <2> QED
    BY <2>1, <2>2, Stutters DEF InHand, Reading
<1> QED
  BY <1>2, <1>3, <1>4, <1>5, <1>6 DEF Sampler

\* The steps of the detector.
LEMMA AdvancedFree ==
  ASSUME Inv, detector'.pc = "take"
  PROVE  \A id : ~ InHand(id)'
BY DEF InHand

LEMMA AdvancedTakes ==
  ASSUME Inv
  PROVE  Advanced.pc = "take" /\ [Advanced EXCEPT !.ended = @ + 1].pc = "take"
BY DEF Advanced, Inv, TypeOK

LEMMA TakeExampleIsND ==
  ASSUME Inv, TakeExample
  PROVE  ND!Next
<1> DEFINE e == detector.packet[detector.at]
<1>1. /\ detector.pc = "take" /\ detector.packet # <<>>
      /\ TakeMarker \/ TakeKnown \/ TakeUnknown
      /\ root'.st.nextId = root.st.nextId /\ ~ root.failed
  BY TakeCases DEF Inv, RootInv, RootOK
<1>2. /\ detector.at \in DOMAIN detector.packet /\ e.id \in Nat
      /\ e.label = Eos => e.id \in EndIds /\ ~ Reading
      /\ e.label # Eos => /\ Data(detector.packet, root.st.nextId)
                          /\ e.id < root.st.nextId /\ root.st.nextId > 0
  BY <1>1, AtExample
<1>3. Reading' = Reading
  BY DEF TakeExample, Reading
<1>4. \A id : ~ InHand(id)
  BY <1>1 DEF InHand
<1>5. root.st.nextId \in Nat
  BY RootType DEF Inv, RootInv
<1> HIDE DEF e
<1>6. CASE TakeMarker
  <2>1. e.label = Eos /\ root' = Observed(root, e.id) /\ answered' = answered
        /\ detector'.pc = "take"
    BY <1>6, AdvancedTakes DEF TakeMarker, e
  <2>2. InFlight' = InFlight
    BY <1>1, <1>4, <2>1, AdvancedFree DEF InFlight
  <2>3. e.id \in ND!MarkerIds(root) /\ root' = ND!Observed(root, e.id)
    BY <1>2, <2>1 DEF EndIds, MarkerIds, ND!MarkerIds, Observed, ND!Observed
  <2>4. ND!EndMarker
    BY <1>1, <1>2, <1>3, <2>1, <2>2, <2>3 DEF ND!EndMarker, InFlight, InHand, Reading
  <2> QED
    BY <2>4 DEF ND!Next
<1>7. CASE TakeKnown \/ TakeUnknown
  <2>1. e.label # Eos
    BY <1>7, Constants DEF TakeKnown, TakeUnknown, e
  <2>2. e.id \notin answered
    BY <1>1, <1>2, <2>1, StepType DEF Inv, PacketInv, DetectorInv, e
  <2>3. e.id \in InFlight
    BY <1>2, <1>4, <1>5, <2>1, <2>2 DEF InFlight
  <2>4. Len(root.st.model) >= K
    <3>1. M >= MinLines
      BY <1>2, <2>1 DEF Inv, PhaseInv
    <3> QED
      BY <3>1, RootType, Constants DEF M, Inv, RootInv
  <2>5. InFlight' = InFlight \ {e.id}
    <3>1. CASE TakeKnown
      <4>1. answered' = answered \cup {e.id} /\ detector'.pc = "take"
        BY <3>1, AdvancedTakes DEF TakeKnown, e
      <4> QED
        BY <1>1, <1>4, <4>1, AdvancedFree DEF InFlight
    <3>2. CASE TakeUnknown
      <4>1. answered' = answered /\ \A id : InHand(id)' <=> id = e.id
        BY <3>2, StepType DEF TakeUnknown, InHand, e, Inv, TypeOK
      <4> QED
        BY <1>1, <1>4, <4>1 DEF InFlight
    <3> QED
      BY <1>7, <3>1, <3>2
  <2>6. root' = ND!Observed(root, e.id) \/ root' \in ND!Handled(root, e.id)
    BY <1>7, SameHandled DEF TakeKnown, TakeUnknown, Observed, ND!Observed, e
  <2>7. PICK id \in InFlight : id = e.id
    BY <2>3
  <2>8. ND!Known(id) \/ ND!Unknown(id)
    BY <1>1, <1>3, <2>5, <2>6, <2>7
    DEF ND!Known, ND!Unknown, ND!Comes, InFlight, InHand, Reading
  <2>9. ND!Next <=> \/ ND!ClusterLine \/ ND!ExampleLine \/ ND!EndOfInput
                    \/ /\ Len(root.st.model) >= K
                       /\ \E i \in InFlight : ND!Known(i) \/ ND!Unknown(i)
                    \/ ND!EndMarker
    BY DEF ND!Next, InFlight, InHand
  <2> QED
    BY <2>4, <2>7, <2>8, <2>9
<1> QED
  BY <1>1, <1>6, <1>7

LEMMA DetectorIsND ==
  ASSUME Inv, Detector
  PROVE  [ND!Next]_(ND!vars)
<1>1. Reading' = Reading
  BY DEF Detector, TakePacket, TakeExample, CastNew, PrintUnknown, EndOfStreams, Reading
<1>2. TypeOK
  BY DEF Inv
<1>3. CASE TakePacket
  <2>1. root' = root /\ answered' = answered
        /\ detector.pc = "take" /\ detector'.pc = "take"
    BY <1>2, <1>3 DEF TakePacket, TypeOK
  <2> QED
    BY <1>1, <2>1, Stutters DEF InHand
<1>4. CASE TakeExample
  BY <1>4, TakeExampleIsND
<1>5. CASE CastNew
  <2>1. root' = root /\ answered' = answered
        /\ detector.pc \in {"struct", "center"} /\ detector'.pc \in {"struct", "center"}
        /\ detector'.packet = detector.packet /\ detector'.at = detector.at
    BY <1>2, <1>5 DEF CastNew, TypeOK
  <2> QED
    BY <1>1, <2>1, Stutters DEF InHand
<1>6. CASE PrintUnknown
  <2> DEFINE id == detector.packet[detector.at].id
  <2>1. root' = root /\ answered' = answered \cup {id}
        /\ detector.pc = "struct" /\ detector'.pc = "take"
    BY <1>6, AdvancedTakes DEF PrintUnknown
  <2>2. \A i : InHand(i) <=> i = id
    BY <2>1 DEF InHand
  <2> HIDE DEF id
  <2>3. InFlight' = InFlight
    BY <2>1, <2>2, AdvancedFree DEF InFlight
  <2> QED
    BY <1>1, <2>1, <2>3 DEF ND!vars, InFlight, InHand, Reading
<1>7. CASE EndOfStreams
  <2>1. root' = root /\ answered' = answered
        /\ detector.pc = "take" /\ detector'.pc = "done"
    BY <1>2, <1>7 DEF EndOfStreams, TypeOK
  <2> QED
    BY <1>1, <2>1, Stutters DEF InHand
<1> QED
  BY <1>3, <1>4, <1>5, <1>6, <1>7 DEF Detector

\* The threads of the leaves move packets and clusters, unseen by ND.
LEMMA NextIsND ==
  ASSUME Inv, [Next]_vars
  PROVE  [ND!Next]_(ND!vars)
<1>1. CASE UNCHANGED rootVars
  <2>1. root' = root /\ answered' = answered /\ detector' = detector /\ sampler' = sampler
    BY <1>1 DEF rootVars
  <2> QED
    BY <2>1, Stutters DEF InHand, Reading
<1>2. ASSUME NEW l \in Leaves, Receiver(l)
      PROVE  UNCHANGED rootVars
  BY <1>2 DEF Receiver, HearStruct, HearCenter, Add, Post
<1>3. ASSUME NEW t \in Threads, Classifier(t)
      PROVE  UNCHANGED rootVars
  BY <1>3 DEF Classifier, Receive, ForwardEos, Check, Wake, IdentifyNext
<1>4. CASE Terminated \/ UNCHANGED vars
  BY <1>1, <1>4 DEF Terminated, vars
<1> QED
  BY <1>1, <1>2, <1>3, <1>4, SamplerIsND, DetectorIsND DEF Next

\* The MPI program implements UnorderedND: whatever its threads do, rank 0 sees
\* each example come back once, after the model has K clusters.
THEOREM RankZeroIsND == Spec => ImplementsUnorderedND
<1>1. Init => ND!Init
  BY InitIsND
<1>2. Inv /\ [Next]_vars => [ND!Next]_(ND!vars)
  BY NextIsND
<1> QED
  BY <1>1, <1>2, Invariance, PTL DEF Spec, ImplementsUnorderedND, ND!Spec
=============================================================================
