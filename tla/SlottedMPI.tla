----------------------------- MODULE SlottedMPI -----------------------------
(***************************************************************************)
(* The MPI program before packets, old-code/src/reboot/threaded-mpi.c.     *)
(* The sampler of rank 0 keeps every example it sends in a table of slots  *)
(* until the detector has handled the answer, and the two threads share    *)
(* the table under a mutex and a semaphore.  At the end the leaves report  *)
(* how often each cluster was used.                                        *)
(*                                                                         *)
(* The functions the program takes from the missing reboot/base.h are      *)
(* modelled from their use: identify answers with a match or not, novelty  *)
(* detection brings one cluster or more, and at least MinEx of the         *)
(* unknowns are close to the model after it.                               *)
(***************************************************************************)
EXTENDS Integers, Sequences, FiniteSets, FiniteSetsExt

CONSTANTS
  K, MinEx,     \* parameters of MINAS
  NLeaves,      \* ranks 1 .. mpiSize - 1
  NSlots,       \* rootState.size, k * minExamplesPerCluster * mpiSize
  Answers,      \* what identify may answer
  MaxLines,     \* cluster lines of the input, all before the first example
  MaxClusters,  \* bound on the model, large enough for every detection
  MaxExamples,  \* bound on the examples of the input
  Eager         \* messages to one place that MPI buffers

ASSUME SlottedAssumption ==
  /\ K \in Nat \ {0} /\ MinEx \in Nat \ {0}
  /\ NLeaves \in Nat \ {0}
  /\ NSlots \in Nat /\ NSlots >= NLeaves
  /\ Answers \subseteq {"match", "unknown"} /\ Answers # {}
  /\ MaxLines \in Nat /\ MaxLines >= K      \* a whole model
  /\ MaxClusters \in Nat /\ MaxClusters >= MaxLines
  /\ MaxExamples \in Nat \ {0} /\ Eager \in Nat
  /\ 2 * NLeaves + 1 <= 127                 \* a slot is a char

Leaves == 1..NLeaves
MpiSize == NLeaves + 1
Slots == 1..NSlots
Labels == {"blank", "match", "unknown", "eos"}
Example == [id : Nat, label : Labels]
Blank == [id |-> 0, label |-> "blank"]
EosCast == -1       \* the cluster that ends the model stream

VARIABLES
  slots, table, slotFree,    \* rootState: slots, examples, slotFreeSemaphore
  size,                      \* model->size of rank 0
  sampler, detector, output, \* threads of rank 0, and the lines it printed
  examples, answers,         \* per leaf: messages from sampler, to detector
  casts,                     \* per leaf: broadcasts not received yet
  leafSize, ready,           \* per leaf: model->size, modelReadySemaphore
  classifier, receiver,      \* per leaf: threads
  used, told, heard, total   \* the final statistics

tableVars == <<slots, table, slotFree>>
endVars == <<told, heard, total>>
leafVars == <<leafSize, ready, classifier, receiver, used>>
vars == <<tableVars, size, sampler, detector, output, examples, answers, casts,
          leafVars, endVars>>

\* What is out of reach of the sampler, of the detector, of a leaf.
samplerRest == <<detector, output, answers, leafVars, endVars>>
detectorRest == <<sampler, examples, leafVars, endVars>>
leafRest == <<tableVars, size, sampler, detector, output, endVars>>

ClusterIds == 0..(MaxClusters - 1)
Answer == [id : Nat, label : Labels]

TypeOK ==
  /\ slots \in [Slots -> 0..(2 * NLeaves + 1)]
  /\ table \in [Slots -> Example]
  /\ slotFree \in Nat
  /\ size \in 0..MaxClusters
  /\ sampler \in [pc : {"read", "find", "wait", "fill", "send", "mark", "pack",
                        "eos", "done"},
                  id : 0..MaxExamples, dest : 0..NLeaves, slot : 0..NSlots,
                  marker : Example]
  /\ detector \in [pc : {"take", "find", "wait", "label", "print", "sort",
                         "cast", "free", "post", "end", "done", "failed"},
                   from : 0..NLeaves, answer : Answer, slot : 0..NSlots,
                   streams : 0..NLeaves, id : Nat, lastNDCheck : Nat,
                   unknowns : SUBSET Nat, cast : Nat]
  /\ output \in Seq(Answer)
  /\ examples \in [Leaves -> Seq(Example)]
  /\ answers \in [Leaves -> Seq(Answer)]
  /\ casts \in [Leaves -> Seq(ClusterIds \cup {EosCast})]
  /\ leafSize \in [Leaves -> 0..MaxClusters]
  /\ ready \in [Leaves -> 0..1]
  /\ classifier \in [Leaves -> [pc : {"receive", "check", "wait", "identify", "done"},
                                example : Example]]
  /\ receiver \in [Leaves -> [pc : {"hear", "add", "done", "failed"}, cluster : 0..MaxClusters]]
  /\ used \in [Leaves -> [ClusterIds -> Nat]]
  /\ told \in [Leaves -> 0..MaxClusters]
  /\ heard \in [Leaves -> 0..MaxClusters]
  /\ total \in [ClusterIds -> Nat]

Init ==
  /\ slots = [s \in Slots |-> 0]
  /\ table = [s \in Slots |-> Blank]
  /\ slotFree = 0
  /\ size = 0
  /\ sampler = [pc |-> "read", id |-> 0, dest |-> 0, slot |-> 0,
                marker |-> Blank]
  /\ detector = [pc |-> "take", from |-> 0, answer |-> Blank, slot |-> 0,
                 streams |-> NLeaves, id |-> 0, lastNDCheck |-> 0,
                 unknowns |-> {}, cast |-> 0]
  /\ output = <<>>
  /\ examples = [l \in Leaves |-> <<>>]
  /\ answers = [l \in Leaves |-> <<>>]
  /\ casts = [l \in Leaves |-> <<>>]
  /\ leafSize = [l \in Leaves |-> 0]
  /\ ready = [l \in Leaves |-> 0]
  /\ classifier = [l \in Leaves |-> [pc |-> "receive", example |-> Blank]]
  /\ receiver = [l \in Leaves |-> [pc |-> "hear", cluster |-> 0]]
  /\ used = [l \in Leaves |-> [c \in ClusterIds |-> 0]]
  /\ told = [l \in Leaves |-> 0]
  /\ heard = [l \in Leaves |-> 0]
  /\ total = [c \in ClusterIds |-> 0]

\* The ids of examples in use: read, and not handled yet.
Handled == {output[i].id : i \in DOMAIN output}
               \ (IF detector.pc = "sort" THEN {output[Len(output)].id} ELSE {})

ND == INSTANCE SlottedND WITH
        dealt <- sampler.id,
        due <- (0..(sampler.id - 1)) \ Handled,
        unknowns <- detector.unknowns,
        id <- detector.id,
        lastNDCheck <- detector.lastNDCheck,
        failed <- detector.pc = "failed"

\* A call of MPI returns when at most Eager messages wait at the other end.
Returned(queues) == \A l \in Leaves : Len(queues[l]) <= Eager

Broadcast(c) == casts' = [l \in Leaves |-> Append(casts[l], c)]

SamplerGoes(position) == sampler' = [sampler EXCEPT !.pc = position]
DetectorGoes(position) == detector' = [detector EXCEPT !.pc = position]

-----------------------------------------------------------------------------
\* Slip: the cluster behind the new one is broadcast.
ReadClusterOneOff ==
  /\ sampler.pc = "read" /\ sampler.id = 0
  /\ size < MaxLines
  /\ Returned(casts)
  /\ size' = size + 1
  /\ Broadcast(size + 1)
  /\ UNCHANGED <<sampler, examples, samplerRest, tableVars>>

\* sampler: a cluster line is added and broadcast with matches and misses at 0.
ReadCluster ==
  /\ sampler.pc = "read" /\ sampler.id = 0
  /\ size < MaxLines
  /\ Returned(casts)
  /\ size' = size + 1
  /\ Broadcast(size)
  /\ UNCHANGED <<sampler, examples, samplerRest, tableVars>>

\* sampler: a line with an example.
ReadExample ==
  /\ sampler.pc = "read"
  /\ size >= MaxLines
  /\ sampler.id = 0 => Returned(casts)
  /\ Returned(examples)
  /\ sampler.id < MaxExamples
  /\ SamplerGoes("find")
  /\ UNCHANGED <<size, examples, casts, samplerRest, tableVars>>

\* Slip: an example that waits for its answer may be replaced.
AnySlot(dest) == {s \in Slots : slots[s] = 0 \/ slots[s] % MpiSize = dest}

\* A slot stays with the leaf that first had it.
FreeSlots(dest) ==
  {s \in Slots : \/ slots[s] = 0
                 \/ slots[s] > MpiSize /\ slots[s] % MpiSize = dest}

\* sampler: the next leaf in turn, if there is a slot for it.
FindSlot ==
  /\ sampler.pc = "find"
  /\ LET dest == (sampler.dest % NLeaves) + 1
     IN IF FreeSlots(dest) = {}
          THEN /\ sampler' = [sampler EXCEPT !.pc = "wait", !.dest = dest]
               /\ UNCHANGED slots
          ELSE /\ sampler' = [sampler EXCEPT !.pc = "fill", !.dest = dest,
                                             !.slot = Min(FreeSlots(dest))]
               /\ slots' = [slots EXCEPT ![Min(FreeSlots(dest))] = dest]
  /\ UNCHANGED <<table, slotFree, size, examples, casts, samplerRest>>

AwaitSlot ==
  /\ sampler.pc = "wait"
  /\ slotFree > 0
  /\ slotFree' = slotFree - 1
  /\ SamplerGoes("find")
  /\ UNCHANGED <<slots, table, size, examples, casts, samplerRest>>

\* The label is the one the slot was left with.
FillSlot ==
  /\ sampler.pc = "fill"
  /\ table' = [table EXCEPT ![sampler.slot].id = sampler.id]
  /\ sampler' = [sampler EXCEPT !.pc = "send", !.id = @ + 1]
  /\ UNCHANGED <<slots, slotFree, size, examples, casts, samplerRest>>

SendExample ==
  /\ sampler.pc = "send"
  /\ examples' = [examples EXCEPT ![sampler.dest] =
                    Append(@, table[sampler.slot])]
  /\ SamplerGoes("read")
  /\ UNCHANGED <<size, casts, samplerRest, tableVars>>

\* sampler: the end of the input, or 20 seconds have passed.  "example" still
\* points into the table.
EndOfInput ==
  /\ sampler.pc = "read" /\ sampler.id > 0
  /\ Returned(examples)
  /\ sampler' = [sampler EXCEPT !.pc = "mark", !.dest = 1]
  /\ UNCHANGED <<size, examples, casts, samplerRest, tableVars>>

MarkLast ==
  /\ sampler.pc = "mark"
  /\ table' = [table EXCEPT ![sampler.slot].label = "eos"]
  /\ SamplerGoes("pack")
  /\ UNCHANGED <<slots, slotFree, size, examples, casts, samplerRest>>

\* The label was set in the table, so the detector may have changed it since.
PackMarker ==
  /\ sampler.pc = "pack"
  /\ sampler' = [sampler EXCEPT !.pc = "eos", !.marker = table[sampler.slot]]
  /\ UNCHANGED <<size, examples, casts, samplerRest, tableVars>>

SendMarker ==
  /\ sampler.pc = "eos"
  /\ Returned(examples)
  /\ examples' = [examples EXCEPT ![sampler.dest] = Append(@, sampler.marker)]
  /\ sampler' = IF sampler.dest = NLeaves
                  THEN [sampler EXCEPT !.pc = "done"]
                  ELSE [sampler EXCEPT !.dest = @ + 1]
  /\ UNCHANGED <<size, casts, samplerRest, tableVars>>

Sampler == \/ ReadCluster \/ ReadExample \/ FindSlot \/ AwaitSlot \/ FillSlot
           \/ SendExample \/ EndOfInput \/ MarkLast \/ PackMarker
           \/ SendMarker

-----------------------------------------------------------------------------
\* classifier: the end marker is passed on.
Receive(l) ==
  /\ classifier[l].pc = "receive"
  /\ Len(answers[l]) <= Eager
  /\ examples[l] # <<>>
  /\ examples' = [examples EXCEPT ![l] = Tail(@)]
  /\ IF Head(examples[l]).label = "eos"
       THEN /\ answers' = [answers EXCEPT ![l] = Append(@, Head(examples[l]))]
            /\ classifier' = [classifier EXCEPT ![l].pc = "done"]
       ELSE /\ classifier' = [classifier EXCEPT
                                ![l] = [pc |-> "check",
                                        example |-> Head(examples[l])]]
            /\ UNCHANGED answers
  /\ UNCHANGED <<casts, leafSize, ready, receiver, used, leafRest>>

\* classifier: the size of the model is read without the lock.
CheckModel(l) ==
  /\ classifier[l].pc = "check"
  /\ classifier' = [classifier EXCEPT ![l].pc =
                      IF leafSize[l] < K THEN "wait" ELSE "identify"]
  /\ UNCHANGED <<examples, answers, casts, leafSize, ready, receiver, used,
                 leafRest>>

AwaitModel(l) ==
  /\ classifier[l].pc = "wait"
  /\ ready[l] > 0
  /\ ready' = [ready EXCEPT ![l] = @ - 1]
  /\ classifier' = [classifier EXCEPT ![l].pc = "check"]
  /\ UNCHANGED <<examples, answers, casts, leafSize, receiver, used, leafRest>>

\* classifier: some cluster is nearest; the answer goes to the detector.
IdentifyAndSend(l) ==
  /\ classifier[l].pc = "identify"
  /\ \E c \in 0..(leafSize[l] - 1), label \in Answers :
       /\ used' = [used EXCEPT ![l][c] = @ + 1]
       /\ answers' = [answers EXCEPT ![l] =
                        Append(@, [id |-> classifier[l].example.id,
                                   label |-> label])]
  /\ classifier' = [classifier EXCEPT ![l].pc = "receive"]
  /\ UNCHANGED <<examples, casts, leafSize, ready, receiver, leafRest>>

Classifier(l) == Receive(l) \/ CheckModel(l) \/ AwaitModel(l) \/ IdentifyAndSend(l)

\* Slip: the semaphore is posted again for every later cluster.
CompletesOrMore(n) == n >= K

Completes(n) == n = K

\* m_receiver: the broadcast is taken.
Hear(l) ==
  /\ receiver[l].pc = "hear"
  /\ casts[l] # <<>>
  /\ casts' = [casts EXCEPT ![l] = Tail(@)]
  /\ receiver' = [receiver EXCEPT ![l] =
                    IF Head(casts[l]) = EosCast THEN [@ EXCEPT !.pc = "done"]
                    ELSE [pc |-> "add", cluster |-> Head(casts[l])]]
  /\ UNCHANGED <<examples, answers, leafSize, ready, classifier, used, leafRest>>

\* The cluster must be the next one of the model, to which it is added under the
\* mutex; the semaphore is posted once, when the model is complete.
AddHeard(l) ==
  /\ receiver[l].pc = "add"
  /\ IF receiver[l].cluster # leafSize[l]
       THEN /\ receiver' = [receiver EXCEPT ![l].pc = "failed"]
            /\ UNCHANGED <<leafSize, ready>>
       ELSE /\ receiver' = [receiver EXCEPT ![l].pc = "hear"]
            /\ leafSize' = [leafSize EXCEPT ![l] = @ + 1]
            /\ ready' = [ready EXCEPT ![l] = IF Completes(leafSize[l] + 1)
                                                THEN @ + 1 ELSE @]
  /\ UNCHANGED <<examples, answers, casts, classifier, used, leafRest>>

LeafThreads(l) == Classifier(l) \/ Hear(l) \/ AddHeard(l)

-----------------------------------------------------------------------------
\* detector: the next answer of any leaf, or the end of its stream.
Take(l) ==
  /\ detector.pc = "take" /\ detector.streams > 0
  /\ answers[l] # <<>>
  /\ answers' = [answers EXCEPT ![l] = Tail(@)]
  /\ IF Head(answers[l]).label = "eos"
       THEN detector' = [detector EXCEPT !.streams = @ - 1]
       ELSE detector' = [detector EXCEPT !.pc = "find", !.from = l,
                                         !.answer = Head(answers[l])]
  /\ UNCHANGED <<size, output, casts, detectorRest, tableVars>>

SlotsOfAnswer ==
  {s \in Slots : /\ slots[s] = detector.from
                 /\ table[s].id = detector.answer.id}

LookUp ==
  /\ detector.pc = "find"
  /\ IF SlotsOfAnswer = {}
       THEN DetectorGoes("wait")
       ELSE detector' = [detector EXCEPT !.pc = "label",
                                         !.slot = Min(SlotsOfAnswer)]
  /\ UNCHANGED <<size, output, answers, casts, detectorRest, tableVars>>

AwaitChange ==
  /\ detector.pc = "wait"
  /\ slotFree > 0
  /\ slotFree' = slotFree - 1
  /\ DetectorGoes("find")
  /\ UNCHANGED <<slots, table, size, output, answers, casts, detectorRest>>

\* Slip: the label is left as it was.
KeepLabel ==
  /\ detector.pc = "label"
  /\ DetectorGoes("print")
  /\ UNCHANGED <<size, output, answers, casts, detectorRest, tableVars>>

\* From here the example is used outside the mutex.
SetLabel ==
  /\ detector.pc = "label"
  /\ table' = [table EXCEPT ![detector.slot].label = detector.answer.label]
  /\ DetectorGoes("print")
  /\ UNCHANGED <<slots, slotFree, size, output, answers, casts, detectorRest>>

PrintAnswer ==
  /\ detector.pc = "print"
  /\ output' = Append(output, table[detector.slot])
  /\ DetectorGoes("sort")
  /\ UNCHANGED <<size, answers, casts, detectorRest, tableVars>>

\* Slip: an answer that was overtaken moves the id back.
LatestIsLast(x) == x

Latest(x) == Max({detector.id, x})

\* detector: an unknown is stored, and may set off a novelty detection.
SortAnswer ==
  /\ detector.pc = "sort"
  /\ LET x == table[detector.slot].id
         latest == Latest(x)
         unknowns == detector.unknowns \cup {x}
         sorted(pc, buffer, last, cast) ==
           detector' = [detector EXCEPT
                          !.pc = pc, !.id = latest, !.unknowns = buffer,
                          !.lastNDCheck = last, !.cast = cast]
     IN IF table[detector.slot].label # "unknown"
          THEN /\ sorted("free", detector.unknowns, detector.lastNDCheck, 0)
               /\ UNCHANGED size
        ELSE IF Cardinality(unknowns) >= 2 * ND!Trigger
          THEN /\ sorted("failed", unknowns, detector.lastNDCheck, 0)
               /\ UNCHANGED size
        ELSE IF ~ ND!RoundDue(unknowns, latest, detector.lastNDCheck)
          THEN /\ sorted("free", unknowns, detector.lastNDCheck, 0)
               /\ UNCHANGED size
        ELSE \E new \in 1..(MaxClusters - size),
                left \in ND!Leftovers(unknowns, detector.lastNDCheck) :
               /\ size' = size + new
               /\ sorted("cast", left, latest, size)
  /\ UNCHANGED <<output, answers, casts, detectorRest, tableVars>>

CastNew ==
  /\ detector.pc = "cast"
  /\ Returned(casts)
  /\ IF detector.cast < size
       THEN /\ Broadcast(detector.cast)
            /\ detector' = [detector EXCEPT !.cast = @ + 1]
       ELSE /\ DetectorGoes("free")
            /\ UNCHANGED casts
  /\ UNCHANGED <<size, output, answers, detectorRest, tableVars>>

FreeSlot ==
  /\ detector.pc = "free"
  /\ slots' = [slots EXCEPT ![detector.slot] = @ + MpiSize]
  /\ DetectorGoes("post")
  /\ UNCHANGED <<table, slotFree, size, output, answers, casts, detectorRest>>

\* Slip: the sampler is not told.
PostNothing ==
  /\ detector.pc = "post"
  /\ DetectorGoes("take")
  /\ UNCHANGED <<size, output, answers, casts, detectorRest, tableVars>>

PostSlot ==
  /\ detector.pc = "post"
  /\ slotFree' = slotFree + 1
  /\ DetectorGoes("take")
  /\ UNCHANGED <<slots, table, size, output, answers, casts, detectorRest>>

\* detector: every leaf has ended; so do the receivers.
CastEos ==
  /\ detector.pc = "take" /\ detector.streams = 0
  /\ Broadcast(EosCast)
  /\ DetectorGoes("done")
  /\ UNCHANGED <<size, output, answers, detectorRest, tableVars>>

Detector == \/ \E l \in Leaves : Take(l)
            \/ LookUp \/ AwaitChange \/ SetLabel \/ PrintAnswer \/ SortAnswer
            \/ CastNew \/ FreeSlot \/ PostSlot \/ CastEos

-----------------------------------------------------------------------------
\* main of a leaf: its threads have ended, it reports its clusters in order.
Tell(l) ==
  /\ classifier[l].pc = "done" /\ receiver[l].pc = "done"
  /\ told[l] < leafSize[l]
  /\ told[l] - heard[l] <= Eager
  /\ told' = [told EXCEPT ![l] = @ + 1]
  /\ UNCHANGED <<size, sampler, detector, output, examples, answers, casts,
                 heard, total, leafVars, tableVars>>

Reports == MapThenSumSet(LAMBDA l : heard[l], Leaves)

\* Slip: a report replaces what others reported.
AddReportAlone(l) == [total EXCEPT ![heard[l]] = used[l][heard[l]]]

AddReport(l) == [total EXCEPT ![heard[l]] = @ + used[l][heard[l]]]

\* main of rank 0: as many reports as it has clusters, for each leaf, from any.
HearReport(l) ==
  /\ sampler.pc = "done" /\ detector.pc = "done"
  /\ Reports < NLeaves * size
  /\ heard[l] < told[l]
  /\ heard' = [heard EXCEPT ![l] = @ + 1]
  /\ total' = AddReport(l)
  /\ UNCHANGED <<size, sampler, detector, output, examples, answers, casts,
                 told, leafVars, tableVars>>

RootDone ==
  sampler.pc = "done" /\ detector.pc = "done" /\ Reports = NLeaves * size
LeafDone(l) ==
  /\ classifier[l].pc = "done" /\ receiver[l].pc = "done"
  /\ told[l] = leafSize[l] /\ heard[l] = told[l]
Ended == RootDone /\ \A l \in Leaves : LeafDone(l)

Next ==
  \/ Sampler \/ Detector
  \/ \E l \in Leaves : LeafThreads(l) \/ Tell(l) \/ HearReport(l)

\* Every thread is scheduled, every message arrives; the input ends.
Fairness ==
  /\ WF_vars(Sampler) /\ WF_vars(Detector)
  /\ \A l \in Leaves : /\ WF_vars(Classifier(l))
                       /\ WF_vars(Hear(l) \/ AddHeard(l))
                       /\ WF_vars(Tell(l)) /\ WF_vars(HearReport(l))

Spec == Init /\ [][Next]_vars /\ Fairness

-----------------------------------------------------------------------------
\* Where an example is whose answer is due: with its leaf, or on the way back.
Due(l) ==
  {examples[l][i].id : i \in {j \in DOMAIN examples[l] :
                                examples[l][j].label # "eos"}}
  \cup {answers[l][i].id : i \in {j \in DOMAIN answers[l] :
                                    answers[l][j].label # "eos"}}
  \cup (IF classifier[l].pc \in {"check", "wait", "identify"}
          THEN {classifier[l].example.id} ELSE {})
  \cup (IF detector.pc \in {"find", "wait"} /\ detector.from = l
          THEN {detector.answer.id} ELSE {})

\* The detector labelled the last example after the sampler had made it the end
\* marker and before it packed that marker.
MarkerErased ==
  sampler.pc \in {"eos", "done"} /\ sampler.marker.label # "eos"

\* An example stays in its slot until its answer is handled, and the detector
\* finds each answer at once, in the first slot that matches.  A slot the sampler
\* is still filling may match too, through a number left in it, but never first.
EveryAnswerHasItsSlot ==
  MarkerErased \/
  \A l \in Leaves : \A id \in Due(l) :
    LET matching == {s \in Slots : slots[s] = l /\ table[s].id = id}
        filling == IF sampler.pc = "fill" THEN {sampler.slot} ELSE {}
    IN \E s \in Slots : matching \ filling = {s} /\ Min(matching) = s

\* One line for each example, with the answer of its leaf.  Only the line of the
\* last example may show the end marker the sampler makes of it.
PrintedOnce ==
  \A i \in DOMAIN output :
    /\ \A j \in DOMAIN output : output[i].id = output[j].id => i = j
    /\ output[i].label \in Answers \cup
         (IF output[i].id = sampler.id - 1 THEN {"eos"} ELSE {})

\* The assertion cl->id == model->size of m_receiver holds, and a leaf is never
\* ahead of rank 0.
LeavesFollow ==
  \A l \in Leaves : receiver[l].pc # "failed" /\ leafSize[l] <= size

\* The reports add up: every example was counted at one cluster of one leaf.
StatisticsAddUp ==
  Ended => MapThenSumSet(LAMBDA c : total[c], ClusterIds) = sampler.id

\* Nobody waits for ever, unless the end marker was erased or the assertion on
\* unknownsSize has stopped the program.
Termination == <>(Ended \/ MarkerErased \/ detector.pc = "failed")

\* Rank 0 deals and handles examples as SlottedND says, whatever the order in
\* which threads and messages get their turn.
ImplementsSlottedND == ND!Spec

\* The invariant of the program: slots, answers, replicas and reports agree.
Inv == TypeOK /\ EveryAnswerHasItsSlot /\ PrintedOnce /\ LeavesFollow /\ StatisticsAddUp
=============================================================================
