---------------------------- MODULE ThreadedMPI ----------------------------
(***************************************************************************)
(* The MPI program, src/src/threaded-mpi.c.  On rank 0 the sampler reads   *)
(* the input, broadcasts its clusters and deals packets of examples out to *)
(* the leaves; the detector takes the labelled packets back, runs novelty  *)
(* detection and broadcasts the new clusters.  On every leaf NClassifiers  *)
(* classifiers and one receiver share a replica of the model.              *)
(*                                                                         *)
(* A step of a thread is what it does between two points where another     *)
(* thread can notice: an MPI call, a lock, a semaphore, a look at the size *)
(* of the model.  At this commit the classifier is being moved to another  *)
(* packet format and does not read packetSize; it is modelled as sampler   *)
(* and detector need it and as its commented-out lines have it.            *)
(***************************************************************************)
EXTENDS MainRank

CONSTANTS
  NLeaves,       \* ranks 1 .. mpiSize - 1
  NClassifiers,  \* classifier threads of a leaf
  PacketSize,    \* examples in a packet, the last one excepted
  Eos,           \* MFOG_EOS_MARKER, the label 'W'
  StackLabel,    \* the label of "example" in sampler, never assigned
  MinLines,      \* cluster lines before the first example, at the least
  Eager          \* messages to one place that MPI buffers

ASSUME MPIAssumption ==
  /\ NLeaves \in Nat \ {0}
  /\ NClassifiers \in Nat \ {0}
  /\ PacketSize \in Nat \ {0}
  /\ Eos \in Reserved \ {Unk}
  /\ Eos \notin LineLabels          \* no class of the input is called W
  \* nor does the label after one of a line mean W: below 'W' there is 'V', and
  \* a letter does not move nextLabel
  /\ \A l \in LineLabels : l \in Reserved \ {Unk} \/ l + 1 # Eos
  /\ StackLabel \in Nat \ {Eos}
  /\ MinLines \in K..MaxLines       \* the input begins with a whole model
  /\ Eager \in Nat

Leaves == 1..NLeaves
Threads == Leaves \X (1..NClassifiers)
Streams == NLeaves * NClassifiers

VARIABLES
  root,        \* minasState of rank 0
  sampler,     \* thread of rank 0
  detector,    \* thread of rank 0
  answered,    \* ids the detector has printed (bookkeeping)
  examples,    \* per leaf: packets on their way to its classifiers
  results,     \* per classifier: packets on their way to the detector
  casts,       \* per leaf: broadcasts on their way to its receiver
  leaf,        \* per leaf: its minasState
  ready,       \* per leaf: value of modelReadySemaphore
  receiver,    \* per leaf: thread
  classifier   \* per classifier: thread

rootVars == <<root, sampler, detector, answered>>
leafVars == <<leaf, ready, receiver, classifier>>
network == <<examples, results, casts>>
vars == <<rootVars, leafVars, network>>

Example == [id : Nat, label : Nat]
Packet == Seq(Example)

\* A cluster goes out in two broadcasts, the struct and its center.  Of the
\* struct that ends the stream only the label is assigned.
Cast == [what : {"struct", "center"}, cluster : Cluster]

TypeOK ==
  /\ root \in Root
  /\ sampler \in [pc : {"read", "struct", "center", "eos", "done"},
                  packet : Packet, dest : 0..NLeaves, sent : 0..Streams]
  /\ detector \in [pc : {"take", "struct", "center", "done", "failed"},
                   packet : Packet, at : Nat \ {0}, cast : Nat,
                   ended : 0..Streams]
  /\ answered \subseteq Nat
  /\ examples \in [Leaves -> Seq(Packet)]
  /\ results \in [Threads -> Seq(Packet)]
  /\ casts \in [Leaves -> Seq(Cast)]
  /\ leaf \in [Leaves -> MinasState]
  /\ ready \in [Leaves -> Nat]
  /\ receiver \in [Leaves -> [pc : {"struct", "center", "add", "post", "done",
                                     "failed"},
                              cluster : Seq(Cluster)]]
  /\ classifier \in [Threads -> [pc : {"receive", "check", "wait", "identify",
                                       "done"},
                                 packet : Packet, at : Nat \ {0}]]

Init ==
  /\ root = EmptyRoot
  /\ sampler = [pc |-> "read", packet |-> <<>>, dest |-> 0, sent |-> 0]
  /\ detector = [pc |-> "take", packet |-> <<>>, at |-> 1, cast |-> 0, ended |-> 0]
  /\ answered = {}
  /\ examples = [l \in Leaves |-> <<>>]
  /\ results = [t \in Threads |-> <<>>]
  /\ casts = [l \in Leaves |-> <<>>]
  /\ leaf = [l \in Leaves |-> EmptyState]
  /\ ready = [l \in Leaves |-> 0]
  /\ receiver = [l \in Leaves |-> [pc |-> "struct", cluster |-> <<>>]]
  /\ classifier = [t \in Threads |-> [pc |-> "receive", packet |-> <<>>, at |-> 1]]

-----------------------------------------------------------------------------
\* MPI_Send and MPI_Bcast return when at most Eager messages wait at the other
\* end; 0 makes every call wait for its counterpart.
Returned(queue) == \A i \in DOMAIN queue : Len(queue[i]) <= Eager

Broadcast(what, c) ==
  casts' = [l \in Leaves |->
              Append(casts[l], [what |-> what, cluster |-> c])]

\* Leaves take turns.
NextDest == (sampler.dest % NLeaves) + 1

SendExamples(packet) ==
  examples' = [examples EXCEPT ![NextDest] = Append(@, packet)]

-----------------------------------------------------------------------------
\* sampler: a line with a new cluster.
ReadCluster ==
  /\ sampler.pc = "read"
  /\ Returned(casts)
  /\ root.st.nextId = 0
  /\ Len(root.st.model) < MaxLines
  /\ \E label \in LineLabels, isSleep \in StackSleep :
       root' = Lined(root, label, isSleep)
  /\ sampler' = [sampler EXCEPT !.pc = "struct"]
  /\ UNCHANGED <<detector, answered, leafVars, network>>

CastLine ==
  /\ Returned(casts)
  /\ sampler.pc \in {"struct", "center"}
  /\ Broadcast(sampler.pc, root.st.model[Len(root.st.model)])
  /\ sampler' = [sampler EXCEPT !.pc = IF @ = "struct" THEN "center" ELSE "read"]
  /\ UNCHANGED <<root, detector, answered, leafVars, examples, results>>

\* The sampler goes on when its own broadcasts are out.
LinesOut == root.st.nextId = 0 => Returned(casts)

\* sampler: a line with an example; a full packet is sent.
ReadExample ==
  /\ sampler.pc = "read"
  /\ LinesOut /\ Returned(examples)
  /\ Len(root.st.model) >= MinLines
  /\ root.st.nextId < MaxExamples
  /\ root' = Numbered(root)
  /\ LET packet == Append(sampler.packet,
                          [id |-> root.st.nextId, label |-> StackLabel])
     IN IF Len(packet) < PacketSize
          THEN /\ sampler' = [sampler EXCEPT !.packet = packet]
               /\ UNCHANGED examples
          ELSE /\ sampler' = [sampler EXCEPT !.packet = <<>>, !.dest = NextDest]
               /\ SendExamples(packet)
  /\ UNCHANGED <<detector, answered, leafVars, results, casts>>

\* Slip: what is left of the last packet is forgotten.
EndOfInputNoFlush ==
  /\ sampler.pc = "read"
  /\ LinesOut /\ Returned(examples)
  /\ sampler' = [sampler EXCEPT !.pc = "eos"]
  /\ UNCHANGED <<root, detector, answered, leafVars, network>>

\* sampler: the loop is over; what is left goes out as a shorter packet.
EndOfInput ==
  /\ sampler.pc = "read"
  /\ LinesOut /\ Returned(examples)
  /\ IF sampler.packet = <<>>
       THEN /\ sampler' = [sampler EXCEPT !.pc = "eos"]
            /\ UNCHANGED examples
       ELSE /\ sampler' = [sampler EXCEPT !.pc = "eos", !.packet = <<>>,
                                          !.dest = NextDest]
            /\ SendExamples(sampler.packet)
  /\ UNCHANGED <<root, detector, answered, leafVars, results, casts>>

\* sampler: one end marker for each classifier of each leaf.
SendEos ==
  /\ sampler.pc = "eos"
  /\ Returned(examples)
  /\ \E id \in MarkerIds(root) :
       examples' = [examples EXCEPT ![(sampler.sent \div NClassifiers) + 1] =
                      Append(@, <<[id |-> id, label |-> Eos]>>)]
  /\ sampler' = [sampler EXCEPT !.sent = @ + 1,
                                !.pc = IF sampler.sent + 1 = Streams
                                         THEN "done" ELSE "eos"]
  /\ UNCHANGED <<root, detector, answered, leafVars, results, casts>>

Sampler == ReadCluster \/ CastLine \/ ReadExample \/ EndOfInput \/ SendEos

-----------------------------------------------------------------------------
\* m_receiver: the struct of the next cluster, or the end.
HearStruct(l) ==
  /\ receiver[l].pc = "struct"
  /\ casts[l] # <<>>
  /\ LET c == Head(casts[l]).cluster
     IN receiver' = [receiver EXCEPT ![l] =
                       IF c.label = Eos
                         THEN [pc |-> "done", cluster |-> <<>>]
                         ELSE [pc |-> "center", cluster |-> <<c>>]]
  /\ casts' = [casts EXCEPT ![l] = Tail(@)]
  /\ UNCHANGED <<rootVars, leaf, ready, classifier, examples, results>>

\* m_receiver: the center.
HearCenter(l) ==
  /\ receiver[l].pc = "center"
  /\ casts[l] # <<>>
  /\ casts' = [casts EXCEPT ![l] = Tail(@)]
  /\ receiver' = [receiver EXCEPT ![l].pc = "add"]
  /\ UNCHANGED <<rootVars, leaf, ready, classifier, examples, results>>

\* m_receiver: assert(cl->id == model->size), and addCluster under the write
\* lock.
Add(l) ==
  /\ receiver[l].pc = "add"
  /\ LET c == receiver[l].cluster[1]
     IN IF c.id = Len(leaf[l].model)
          THEN /\ leaf' = [leaf EXCEPT ![l] = AddCluster(@, c)]
               /\ receiver' = [receiver EXCEPT ![l] =
                                 [pc |-> "post", cluster |-> <<>>]]
          ELSE /\ receiver' = [receiver EXCEPT ![l].pc = "failed"]
               /\ UNCHANGED leaf
  /\ UNCHANGED <<rootVars, ready, classifier, network>>

\* Slip: one classifier is let go, not all of them.
PostOnce(l) ==
  /\ receiver[l].pc = "post"
  /\ ready' = [ready EXCEPT ![l] = IF Len(leaf[l].model) = K THEN @ + 1 ELSE @]
  /\ receiver' = [receiver EXCEPT ![l].pc = "struct"]
  /\ UNCHANGED <<rootVars, leaf, classifier, network>>

\* m_receiver: with the K-th cluster the model is ready for the classifiers.
Post(l) ==
  /\ receiver[l].pc = "post"
  /\ ready' = [ready EXCEPT ![l] =
                 IF Len(leaf[l].model) = K THEN @ + NClassifiers ELSE @]
  /\ receiver' = [receiver EXCEPT ![l].pc = "struct"]
  /\ UNCHANGED <<rootVars, leaf, classifier, network>>

Receiver(l) == HearStruct(l) \/ HearCenter(l) \/ Add(l) \/ Post(l)

-----------------------------------------------------------------------------
\* classifier t = <<l, i>>: its last packet is out, and it gets the next one.
Receive(t) ==
  /\ classifier[t].pc = "receive"
  /\ Len(results[t]) <= Eager
  /\ examples[t[1]] # <<>>
  /\ classifier' = [classifier EXCEPT ![t] =
                      [pc |-> "check", packet |-> Head(examples[t[1]]), at |-> 1]]
  /\ examples' = [examples EXCEPT ![t[1]] = Tail(@)]
  /\ UNCHANGED <<rootVars, leaf, ready, receiver, results, casts>>

\* Slip: the packet is sent twice.
AnswersTwice(t, packet) ==
  results' = [results EXCEPT ![t] = @ \o <<packet, packet>>]

Answers(t, packet) == results' = [results EXCEPT ![t] = Append(@, packet)]

\* classifier: the end marker goes on to the detector.
ForwardEos(t) ==
  /\ classifier[t].pc = "check"
  /\ classifier[t].packet[classifier[t].at].label = Eos
  /\ Answers(t, classifier[t].packet)
  /\ classifier' = [classifier EXCEPT ![t] =
                      [pc |-> "done", packet |-> <<>>, at |-> 1]]
  /\ UNCHANGED <<rootVars, leaf, ready, receiver, examples, casts>>

\* classifier: the loop condition of the wait for the model, read without lock.
Check(t) ==
  /\ classifier[t].pc = "check"
  /\ classifier[t].packet[classifier[t].at].label # Eos
  /\ classifier' = [classifier EXCEPT ![t].pc =
                      IF Len(leaf[t[1]].model) < K THEN "wait" ELSE "identify"]
  /\ UNCHANGED <<rootVars, leaf, ready, receiver, network>>

\* Slip: the semaphore is taken without waiting for it.
WakeAtOnce(t) ==
  /\ classifier[t].pc = "wait"
  /\ ready' = [ready EXCEPT ![t[1]] = @ - 1]
  /\ classifier' = [classifier EXCEPT ![t].pc = "check"]
  /\ UNCHANGED <<rootVars, leaf, receiver, network>>

\* classifier: sem_wait returns; the condition is looked at again.
Wake(t) ==
  /\ classifier[t].pc = "wait"
  /\ ready[t[1]] > 0
  /\ ready' = [ready EXCEPT ![t[1]] = @ - 1]
  /\ classifier' = [classifier EXCEPT ![t].pc = "check"]
  /\ UNCHANGED <<rootVars, leaf, receiver, network>>

\* classifier: identify under the read lock; after the last example the packet
\* goes back.
IdentifyNext(t) ==
  LET me == classifier[t]
  IN /\ me.pc = "identify"
     /\ \E match \in Identify(leaf[t[1]], me.packet[me.at].id) :
          LET packet == [me.packet EXCEPT ![me.at].label = match.label]
          IN /\ leaf' = [leaf EXCEPT ![t[1]] = match.state]
             /\ IF me.at = Len(me.packet)
                  THEN /\ Answers(t, packet)
                       /\ classifier' = [classifier EXCEPT ![t] =
                            [pc |-> "receive", packet |-> <<>>, at |-> 1]]
                  ELSE /\ classifier' = [classifier EXCEPT ![t] =
                            [pc |-> "check", packet |-> packet, at |-> me.at + 1]]
                       /\ UNCHANGED results
     /\ UNCHANGED <<rootVars, ready, receiver, examples, casts>>

Classifier(t) ==
  Receive(t) \/ ForwardEos(t) \/ Check(t) \/ Wake(t) \/ IdentifyNext(t)

-----------------------------------------------------------------------------
\* detector: the next packet, from any classifier.
TakePacket ==
  /\ detector.pc = "take"
  /\ detector.packet = <<>>
  /\ detector.ended < Streams
  /\ \E t \in Threads :
       /\ results[t] # <<>>
       /\ detector' = [detector EXCEPT !.packet = Head(results[t]), !.at = 1]
       /\ results' = [results EXCEPT ![t] = Tail(@)]
  /\ UNCHANGED <<root, sampler, answered, leafVars, examples, casts>>

\* Slip: the packet is given up one example early.
AdvancedEarly ==
  IF detector.at + 1 >= Len(detector.packet)
    THEN [detector EXCEPT !.packet = <<>>, !.at = 1, !.pc = "take"]
    ELSE [detector EXCEPT !.at = @ + 1, !.pc = "take"]

\* The detector behind the example it is at.
Advanced ==
  IF detector.at = Len(detector.packet)
    THEN [detector EXCEPT !.packet = <<>>, !.at = 1, !.pc = "take"]
    ELSE [detector EXCEPT !.at = @ + 1, !.pc = "take"]

\* detector: an end marker, a labelled example, which is printed, or an unknown,
\* which may start a novelty detection.
TakeExample ==
  /\ detector.pc = "take"
  /\ detector.packet # <<>>
  /\ LET e == detector.packet[detector.at]
     IN \/ /\ e.label = Eos
           /\ root' = Observed(root, e.id)
           /\ detector' = [Advanced EXCEPT !.ended = @ + 1]
           /\ UNCHANGED answered
        \/ /\ e.label \notin {Eos, Unk}
           /\ root' = Observed(root, e.id)
           /\ detector' = Advanced
           /\ answered' = answered \cup {e.id}
        \/ /\ e.label = Unk
           /\ root' \in Handled(root, e.id)
           /\ detector' = [detector EXCEPT
                             !.pc = IF root'.failed THEN "failed" ELSE "struct",
                             !.cast = Len(root.st.model)]
           /\ UNCHANGED answered
  /\ UNCHANGED <<sampler, leafVars, network>>

\* detector: the next new cluster goes out.
CastNew ==
  /\ detector.pc \in {"struct", "center"}
  /\ Returned(casts)
  /\ detector.cast < Len(root.st.model)
  /\ Broadcast(detector.pc, root.st.model[detector.cast + 1])
  /\ detector' = IF detector.pc = "struct" THEN [detector EXCEPT !.pc = "center"]
                 ELSE [detector EXCEPT !.pc = "struct", !.cast = @ + 1]
  /\ UNCHANGED <<root, sampler, answered, leafVars, examples, results>>

\* detector: no new cluster is left, and the unknown is printed.
PrintUnknown ==
  /\ detector.pc = "struct"
  /\ Returned(casts)
  /\ detector.cast = Len(root.st.model)
  /\ answered' = answered \cup {detector.packet[detector.at].id}
  /\ detector' = Advanced
  /\ UNCHANGED <<root, sampler, leafVars, network>>

\* detector: all streams have ended, and the receivers are told.
EndOfStreams ==
  /\ detector.pc = "take"
  /\ detector.ended = Streams
  /\ Broadcast("struct", [id |-> 0, label |-> Eos, latest |-> 0,
                          isSleep |-> FALSE, novel |-> FALSE, touched |-> 0])
  /\ detector' = [detector EXCEPT !.pc = "done"]
  /\ UNCHANGED <<root, sampler, answered, leafVars, examples, results>>

Detector ==
  TakePacket \/ TakeExample \/ CastNew \/ PrintUnknown \/ EndOfStreams

-----------------------------------------------------------------------------
\* Every rank has joined its threads and goes on to MPI_Gather.
Joined ==
  /\ sampler.pc = "done" /\ detector.pc = "done"
  /\ \A l \in Leaves : receiver[l].pc = "done"
  /\ \A t \in Threads : classifier[t].pc = "done"

Terminated == Joined /\ UNCHANGED vars

Next ==
  \/ Sampler
  \/ Detector
  \/ \E l \in Leaves : Receiver(l)
  \/ \E t \in Threads : Classifier(t)
  \/ Terminated

\* Every thread goes on while MPI and the semaphore let it.
Fairness ==
  /\ WF_vars(Sampler)
  /\ WF_vars(Detector)
  /\ \A l \in Leaves : WF_vars(Receiver(l))
  /\ \A t \in Threads : WF_vars(Classifier(t))

Spec == Init /\ [][Next]_vars /\ Fairness

-----------------------------------------------------------------------------
\* The assertion of m_receiver, cl->id == model->size, never fails, and the
\* replica of a leaf is a prefix of the model of rank 0: clusters of sampler and
\* detector reach every leaf in order, none missing and none twice.
ReplicaIsPrefix ==
  \A l \in Leaves :
    /\ receiver[l].pc # "failed"
    /\ Len(leaf[l].model) <= Len(root.st.model)
    /\ \A i \in DOMAIN leaf[l].model :
         /\ leaf[l].model[i].id = root.st.model[i].id
         /\ leaf[l].model[i].label = root.st.model[i].label

Ids(packet) == {packet[i].id : i \in {j \in DOMAIN packet : packet[j].label # Eos}}

\* Where example id is: under construction, on its way, or printed.
Places(id) ==
  {<<"sampler">> : x \in {y \in {sampler.packet} : id \in Ids(y)}}
  \cup {<<"detector">> : x \in {y \in {detector} : id \in Ids(y.packet)
                                                   /\ id \notin answered}}
  \cup {<<"answered">> : x \in answered \cap {id}}
  \cup {<<"classifier", t>> : t \in {u \in Threads : id \in Ids(classifier[u].packet)}}
  \cup (UNION {{<<"examples", l, n>> : n \in {m \in DOMAIN examples[l] :
                                                id \in Ids(examples[l][m])}}
                 : l \in Leaves})
  \cup (UNION {{<<"results", t, n>> : n \in {m \in DOMAIN results[t] :
                                               id \in Ids(results[t][m])}}
                 : t \in Threads})

\* No example is lost or answered twice: from the sampler to the output it is in
\* one place at any time.
InOnePlace == \A id \in 0..(root.st.nextId - 1) : Cardinality(Places(id)) = 1

\* Joining all threads is enough: nothing is left on the way, every example was
\* answered, and the replicas have the size that MPI_Gather expects.
NothingLeft ==
  Joined =>
    /\ answered = 0..(root.st.nextId - 1)
    /\ \A l \in Leaves : /\ casts[l] = <<>> /\ examples[l] = <<>>
                         /\ Len(leaf[l].model) = Len(root.st.model)

\* The program ends: no thread waits for ever in MPI, on the semaphore or for an
\* end marker.
Termination == <>Joined

\* What rank 0 sees of the examples is an UnorderedND.
ND == INSTANCE UnorderedND WITH
        inFlight <- {id \in 0..(root.st.nextId - 1) :
                       /\ id \notin answered
                       /\ ~ (detector.pc \in {"struct", "center", "failed"}
                             /\ id = detector.packet[detector.at].id)},
        open <- sampler.pc \notin {"eos", "done"}
ImplementsUnorderedND == ND!Spec
=============================================================================
