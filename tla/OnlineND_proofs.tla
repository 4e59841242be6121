--------------------------- MODULE OnlineND_proofs ---------------------------
(***************************************************************************)
(* Theorems about the serial program, for every value of its constants:    *)
(* the types, the two assertions on novelty detection, that it keeps the   *)
(* promises of UnknownBuffer, that novelties get fresh labels, and what it *)
(* keeps to when it puts clusters to sleep.                                *)
(***************************************************************************)
EXTENDS OnlineND, Minas_proofs

\* The buffer is below its limit and holds examples already read; those older
\* than the last novelty detection are what that detection looked at.
BufferInv ==
  /\ IsFiniteSet(st.unknowns)
  /\ Cardinality(st.unknowns) < UnknownsMax
  /\ st.lastNDCheck <= st.nextId
  /\ \A x \in st.unknowns : /\ x < st.nextId
                            /\ x < st.lastNDCheck => x \in round.present

\* Every example read so far got one id.
CountInv ==
  /\ read <= MaxExamples
  /\ status = "reading" => st.nextId = read

Inv ==
  /\ TypeOK
  /\ BufferInv
  /\ CountInv
  /\ status # "noNewCluster"
  /\ full = FALSE

LEMMA InitInv ==
  ASSUME Init
  PROVE  Inv
<1>1. EmptyState \in MinasState
  BY DEF EmptyState, MinasState
<1>2. TypeOK
  BY <1>1 DEF Init, TypeOK, Statuses
<1>3. IsFiniteSet(st.unknowns) /\ Cardinality(st.unknowns) = 0
  BY FS_EmptySet DEF Init, EmptyState
<1>4. BufferInv
  BY <1>3, Limits DEF Init, EmptyState, BufferInv
<1>5. CountInv
  BY InputAssumption DEF Init, EmptyState, CountInv
<1> QED
  BY <1>2, <1>4, <1>5 DEF Inv, Init

-----------------------------------------------------------------------------
\* What handling an example does to the buffer: nothing, or the example joins
\* it, or a novelty detection empties it as far as UnknownBuffer allows.
Quiet ==
  /\ st'.unknowns = st.unknowns
  /\ st'.lastNDCheck = st.lastNDCheck
  /\ round' = round

Joined ==
  /\ st'.unknowns = st.unknowns \cup {st.nextId}
  /\ st'.lastNDCheck = st.lastNDCheck
  /\ round' = round
  /\ \/ Cardinality(st'.unknowns) < Trigger
     \/ st.nextId <= st.lastNDCheck + Trigger

Detected ==
  /\ round'.present = st.unknowns \cup {st.nextId}
  /\ round'.consumed \subseteq round'.present
  /\ Cardinality(round'.consumed) >= MinEx
  /\ round'.collected = {x \in round'.present \ round'.consumed :
                           x < st.lastNDCheck}
  /\ st'.unknowns = round'.present \ (round'.consumed \cup round'.collected)
  /\ st'.lastNDCheck = st.nextId
  /\ round'.number = round.number + 1
  /\ round' \in [number : Nat, present : SUBSET Nat, consumed : SUBSET Nat,
                 collected : SUBSET Nat]
  /\ Cardinality(st'.unknowns) <= (K - 1) * (MinEx - 1)

LEMMA HandleExampleFacts ==
  ASSUME Inv, NEW next \in {"reading", "eof"}, HandleExample(next)
  PROVE  /\ st' \in MinasState
         /\ IsFiniteSet(st'.unknowns)
         /\ Cardinality(st'.unknowns) < UnknownsMax
         /\ st'.nextId = st.nextId + 1
         /\ status' \in {next, "modelIncomplete"}
         /\ full' = FALSE
         /\ Quiet \/ Joined \/ Detected
<1> DEFINE id == st.nextId
           s == [st EXCEPT !.currId = id, !.nextId = id + 1]
<1>1. /\ st \in MinasState /\ IsFiniteSet(st.unknowns) /\ full = FALSE
      /\ Cardinality(st.unknowns) < UnknownsMax
      /\ round \in [number : Nat, present : SUBSET Nat, consumed : SUBSET Nat,
                    collected : SUBSET Nat]
  BY DEF Inv, TypeOK, BufferInv
<1>2. id \in Nat
  BY <1>1 DEF MinasState
<1> HIDE DEF id
<1>3. /\ s \in MinasState /\ s.unknowns = st.unknowns /\ s.model = st.model
      /\ s.lastNDCheck = st.lastNDCheck /\ s.nextId = id + 1
  <2>1. id + 1 \in Nat
    BY <1>2
  <2> QED
    BY <1>1, <1>2, <2>1 DEF MinasState
<1> HIDE DEF s
<1>4. CASE Len(st.model) < K
  <2>1. st' = s /\ status' = "modelIncomplete" /\ round' = round /\ full' = full
    BY <1>4 DEF HandleExample, s, id
  <2> QED
    BY <1>1, <1>3, <2>1 DEF Quiet, id
<1>5. CASE ~ (Len(st.model) < K)
  <2>1. PICK match \in Identify(s, id) :
          LET t == HandleSleep(match.state)
          IN IF match.label # Unk
               THEN st' = t /\ status' = next /\ UNCHANGED <<round, full>>
               ELSE \E h \in HandleUnknown(t, id) :
                      /\ st' = h.state
                      /\ status' = IF h.failed THEN "noNewCluster" ELSE next
                      /\ round' = IF h.round
                                    THEN [number |-> round.number + 1,
                                          present |-> t.unknowns \cup {id},
                                          consumed |-> h.consumed,
                                          collected |-> h.collected]
                                    ELSE round
                      /\ full' = (full \/ h.full)
    BY <1>5 DEF HandleExample, s, id
  <2> DEFINE t == HandleSleep(match.state)
  <2>2. match.state \in MinasState /\ SameBuffer(s, match.state)
    BY <1>2, <1>3, IdentifyType
  <2>3. t \in MinasState /\ SameBuffer(match.state, t)
    BY <2>2, HandleSleepType
  <2>4. /\ t \in MinasState /\ t.unknowns = st.unknowns
        /\ t.lastNDCheck = st.lastNDCheck /\ t.nextId = id + 1
    BY <1>3, <2>2, <2>3 DEF SameBuffer
  <2> HIDE DEF t
  <2>5. CASE match.label # Unk
    <3>1. st' = t /\ status' = next /\ round' = round /\ full' = full
      BY <2>1, <2>5 DEF t
    <3> QED
      BY <1>1, <2>4, <3>1 DEF Quiet, id
  <2>6. CASE ~ (match.label # Unk)
    <3>1. PICK h \in HandleUnknown(t, id) :
            /\ st' = h.state
            /\ status' = IF h.failed THEN "noNewCluster" ELSE next
            /\ round' = IF h.round
                          THEN [number |-> round.number + 1,
                                present |-> t.unknowns \cup {id},
                                consumed |-> h.consumed,
                                collected |-> h.collected]
                          ELSE round
            /\ full' = (full \/ h.full)
      BY <2>1, <2>6 DEF t
    <3>2. /\ h.state \in MinasState
          /\ h.state.nextId = t.nextId
          /\ IsFiniteSet(h.state.unknowns)
          /\ Cardinality(h.state.unknowns) < UnknownsMax
          /\ ~ h.failed /\ ~ h.full /\ h.round \in BOOLEAN
          /\ ~ h.round => /\ h.state.unknowns = t.unknowns \cup {id}
                          /\ h.state.lastNDCheck = t.lastNDCheck
                          /\ \/ Cardinality(h.state.unknowns) < Trigger
                             \/ id <= t.lastNDCheck + Trigger
          /\ h.round => /\ h.consumed \subseteq t.unknowns \cup {id}
                        /\ Cardinality(h.consumed) >= MinEx
                        /\ h.collected = {x \in (t.unknowns \cup {id}) \ h.consumed :
                                            x < t.lastNDCheck}
                        /\ h.state.unknowns = (t.unknowns \cup {id})
                                                \ (h.consumed \cup h.collected)
                        /\ h.state.lastNDCheck = id
                        /\ Cardinality(h.state.unknowns) <= (K - 1) * (MinEx - 1)
      BY <1>1, <1>2, <2>4, HandleUnknownFacts
    <3>3. status' = next
      BY <3>1, <3>2
    <3>4. full' = FALSE
      BY <1>1, <3>1, <3>2, Zenon
    <3>5. CASE ~ h.round
      <4>1. round' = round
        BY <3>1, <3>5
      <4>2. Joined
        BY <2>4, <3>1, <3>2, <3>5, <4>1 DEF Joined, id
      <4> QED
        BY <2>4, <3>1, <3>2, <3>3, <3>4, <4>2 DEF id
    <3>6. CASE h.round
      <4>1. round' = [number |-> round.number + 1,
                      present |-> t.unknowns \cup {id},
                      consumed |-> h.consumed,
                      collected |-> h.collected]
        BY <3>1, <3>6
      <4>2. t.unknowns \cup {id} \in SUBSET Nat
        BY <1>2, <2>4 DEF MinasState
      <4>3. /\ h.consumed \in SUBSET Nat /\ h.collected \in SUBSET Nat
            /\ round.number + 1 \in Nat
        BY <1>1, <3>2, <3>6, <4>2
      <4>4. Detected
        BY <2>4, <3>1, <3>2, <3>6, <4>1, <4>2, <4>3 DEF Detected, id
      <4> QED
        BY <2>4, <3>1, <3>2, <3>3, <3>4, <4>4 DEF id
    <3> QED
      BY <3>2, <3>5, <3>6
  <2> QED
    BY <2>5, <2>6
<1> QED
  BY <1>4, <1>5

-----------------------------------------------------------------------------
\* A step that leaves the buffer and the counters of the example lines alone.
LEMMA OtherStepInv ==
  ASSUME Inv, st' \in MinasState, SameUnknowns(st, st'), garbage' = garbage,
         status' \in {"reading", "eof", "done"}, last' \in {"none", "C", "E"},
         status' = "reading" => status = "reading",
         UNCHANGED <<read, round, full>>
  PROVE  Inv'
<1>1. TypeOK'
  BY DEF Inv, TypeOK, Statuses
<1>2. BufferInv'
  BY DEF Inv, BufferInv, SameUnknowns
<1>3. CountInv'
  BY DEF Inv, CountInv, SameUnknowns
<1> QED
  BY <1>1, <1>2, <1>3 DEF Inv

LEMMA ClusterLineInv ==
  ASSUME Inv, NEW id \in 0..Len(st.model), NEW label \in LineLabels,
         ClusterLine(id, label)
  PROVE  Inv' /\ SameUnknowns(st, st')
<1> DEFINE c == [id |-> id, label |-> label, latest |-> UInt(st.currId),
                 isSleep |-> garbage, novel |-> FALSE,
                 touched |-> TouchedAt(st.currId)]
<1>1. st \in MinasState /\ garbage \in BOOLEAN
  BY InputAssumption DEF Inv, TypeOK
<1>2. UInt(st.currId) \in Nat /\ TouchedAt(st.currId) \in 0..Tracked
  BY <1>1, UIntType, TouchedFacts DEF MinasState
<1>3. id \in Nat /\ label \in Nat
  BY <1>1, InputAssumption DEF MinasState
<1>4. c \in Cluster
  BY <1>1, <1>2, <1>3 DEF Cluster
<1>5. st' = AddCluster(st, c) \/ st' = st
  BY DEF ClusterLine
<1> HIDE DEF c
<1>6. st' \in MinasState /\ SameUnknowns(st, st')
  BY <1>1, <1>4, <1>5, AddClusterType DEF SameUnknowns
<1> QED
  BY <1>6, OtherStepInv DEF ClusterLine, LineRead

\* What the invariant needs of a step that handles an example: the id of the
\* example is an example line's, or the program stops reading.
LEMMA HandleExampleInv ==
  ASSUME Inv, NEW next \in {"reading", "eof"}, HandleExample(next),
         garbage' = garbage, last' \in {"none", "C", "E"},
         read' \in Nat, read' <= MaxExamples,
         next = "reading" => st.nextId + 1 = read'
  PROVE  Inv'
<1>1. /\ st' \in MinasState
      /\ IsFiniteSet(st'.unknowns)
      /\ Cardinality(st'.unknowns) < UnknownsMax
      /\ st'.nextId = st.nextId + 1
      /\ status' \in {next, "modelIncomplete"}
      /\ full' = FALSE
      /\ Quiet \/ Joined \/ Detected
  BY HandleExampleFacts
<1>2. /\ st \in MinasState /\ st.nextId \in Nat /\ st.lastNDCheck \in Nat
      /\ st.unknowns \subseteq Nat
  BY DEF Inv, TypeOK, MinasState
<1>3. round' \in [number : Nat, present : SUBSET Nat, consumed : SUBSET Nat,
                  collected : SUBSET Nat]
  BY <1>1 DEF Quiet, Joined, Detected, Inv, TypeOK
<1>4. TypeOK'
  BY <1>1, <1>3 DEF TypeOK, Statuses, Inv
<1>5. /\ st.lastNDCheck <= st.nextId
      /\ \A x \in st.unknowns : /\ x < st.nextId
                                /\ x < st.lastNDCheck => x \in round.present
  BY DEF Inv, BufferInv
<1>6. st'.lastNDCheck <= st'.nextId
  BY <1>1, <1>2, <1>5 DEF Quiet, Joined, Detected
<1>7. ASSUME NEW x \in st'.unknowns
      PROVE  x < st'.nextId /\ (x < st'.lastNDCheck => x \in round'.present)
  <2>1. CASE Quiet
    BY <1>1, <1>2, <1>5, <1>7, <2>1 DEF Quiet
  <2>2. CASE Joined
    BY <1>1, <1>2, <1>5, <1>7, <2>2 DEF Joined
  <2>3. CASE Detected
    BY <1>1, <1>2, <1>5, <1>7, <2>3 DEF Detected
  <2> QED
    BY <1>1, <2>1, <2>2, <2>3
<1>8. BufferInv'
  BY <1>1, <1>6, <1>7 DEF BufferInv
<1>9. CountInv'
  BY <1>1 DEF CountInv
<1> QED
  BY <1>1, <1>4, <1>8, <1>9 DEF Inv

\* Which examples are handled: one for every example line, and the last one a
\* second time when the program stops reading.
LEMMA ExampleLineInv ==
  ASSUME Inv, ExampleLine
  PROVE  Inv' /\ st.nextId <= MaxExamples /\ (Quiet \/ Joined \/ Detected)
<1>1. /\ status = "reading" /\ last' = "E" /\ read < MaxExamples
      /\ read' = read + 1 /\ garbage' = garbage
  BY DEF ExampleLine, LineRead
<1>2. PICK next \in {"reading", "eof"} : HandleExample(next)
  BY DEF ExampleLine
<1>3. read \in Nat /\ st.nextId = read
  BY <1>1 DEF Inv, TypeOK, CountInv
<1>4. Quiet \/ Joined \/ Detected
  BY <1>2, HandleExampleFacts
<1>5. /\ read' \in Nat /\ read' <= MaxExamples
      /\ next = "reading" => st.nextId + 1 = read'
  BY <1>1, <1>3, InputAssumption
<1>6. Inv'
  BY <1>1, <1>2, <1>5, HandleExampleInv
<1> QED
  BY <1>1, <1>3, <1>4, <1>6, InputAssumption

LEMMA StaleLineInv ==
  ASSUME Inv, StaleLine
  PROVE  /\ Inv'
         /\ st.nextId <= MaxExamples
         /\ Quiet \/ Joined \/ Detected
<1>1. /\ status = "reading" /\ last' = last /\ read' = read
      /\ garbage' = garbage
  BY DEF StaleLine
<1>2. /\ read \in Nat /\ st.nextId = read /\ read <= MaxExamples
      /\ last \in {"none", "C", "E"} /\ st \in MinasState
  BY <1>1 DEF Inv, TypeOK, CountInv
<1>3. CASE last = "E"
  <2>1. HandleExample("eof")
    BY <1>3 DEF StaleLine
  <2>2. Quiet \/ Joined \/ Detected
    BY <2>1, HandleExampleFacts
  <2>3. Inv'
    BY <1>1, <1>2, <2>1, HandleExampleInv
  <2> QED
    BY <1>2, <2>2, <2>3
<1>4. CASE last # "E"
  <2>1. st' = st /\ round' = round /\ full' = full /\ status' = "eof"
    BY <1>4 DEF StaleLine
  <2>2. SameUnknowns(st, st')
    BY <2>1 DEF SameUnknowns
  <2>3. Inv'
    BY <1>1, <1>2, <2>1, <2>2, OtherStepInv
  <2> QED
    BY <1>2, <2>1, <2>3 DEF Quiet
<1> QED
  BY <1>3, <1>4

LEMMA FinishInv ==
  ASSUME Inv, Finish
  PROVE  Inv' /\ SameUnknowns(st, st')
<1>1. st \in MinasState /\ last \in {"none", "C", "E"}
  BY DEF Inv, TypeOK
<1>2. st' \in MinasState /\ SameUnknowns(st, st')
  BY <1>1, RestoreSleepType DEF Finish, SameBuffer, SameUnknowns
<1> QED
  BY <1>1, <1>2, OtherStepInv DEF Finish

LEMMA NextInv ==
  ASSUME Inv, [Next]_vars
  PROVE  Inv'
<1>1. ASSUME NEW id \in 0..Len(st.model), NEW label \in LineLabels,
             ClusterLine(id, label)
      PROVE  Inv'
  BY <1>1, ClusterLineInv
<1>2. CASE ExampleLine
  BY <1>2, ExampleLineInv
<1>3. CASE StaleLine
  BY <1>3, StaleLineInv
<1>4. CASE Finish
  BY <1>4, FinishInv
<1>5. CASE UNCHANGED vars
  BY <1>5 DEF vars, Inv, TypeOK, BufferInv, CountInv
<1> QED
  BY <1>1, <1>2, <1>3, <1>4, <1>5 DEF Next

\* The inductive invariant holds in every state of the serial program.
THEOREM Invariance == Spec => []Inv
<1>1. Init => Inv
  BY InitInv
<1>2. Inv /\ [Next]_vars => Inv'
  BY NextInv
<1> QED
  BY <1>1, <1>2, PTL DEF Spec

\* The state keeps its types: the model is a sequence of clusters, and no counter
\* or label of minasState ever goes below zero.
THEOREM TypeCorrect == Spec => []TypeOK
<1>1. Inv => TypeOK
  BY DEF Inv
<1> QED
  BY <1>1, Invariance, PTL

\* The exit of assert(nearest != NULL) in minasHandleUnknown is never taken: a
\* novelty detection finds a cluster whatever k-means does with the unknowns.
THEOREM EveryDetectionFinds == Spec => []DetectionFindsCluster
<1>1. Inv => DetectionFindsCluster
  BY DEF Inv, DetectionFindsCluster
<1> QED
  BY <1>1, Invariance, PTL

\* The assertion minasHandleUnknown has commented out would hold: after an
\* example is handled the buffer is below unknownsMaxSize.
THEOREM AlwaysRoom == Spec => []RoomAfterHandling
<1>1. Inv => RoomAfterHandling
  BY DEF Inv, RoomAfterHandling
<1> QED
  BY <1>1, Invariance, PTL

-----------------------------------------------------------------------------
\* Why the limit of the buffer is never what sets off a novelty detection.  What
\* the last detection left is little, and the examples since then are few: after
\* Trigger of them the next unknown sets off another, or the buffer is small.
Leftover == IF (K - 1) * (MinEx - 1) > 1 THEN (K - 1) * (MinEx - 1) ELSE 1

TriggerInv ==
  /\ st.lastNDCheck < st.nextId \/ (st.lastNDCheck = 0 /\ st.unknowns = {})
  /\ Cardinality({x \in st.unknowns : x <= st.lastNDCheck}) <= Leftover
  /\ \/ Cardinality(st.unknowns) < Trigger
     \/ \A x \in st.unknowns : x <= st.lastNDCheck + Trigger
  /\ Cardinality(round.present) < UnknownsMax

\* With fewer than three examples to a trigger there is no room between it and
\* the limit.
LEMMA LeftoverSmall ==
  ASSUME Trigger >= 3
  PROVE  Leftover \in Nat /\ Leftover >= 1 /\ Leftover + 1 < Trigger
         /\ (K - 1) * (MinEx - 1) <= Leftover
<1>1. K \in Nat /\ K >= 1 /\ MinEx \in Nat /\ MinEx >= 1 /\ MinEx * K >= 3
  BY ParamsAssumption DEF Trigger
<1>2. (K - 1) * (MinEx - 1) = MinEx * K - K - MinEx + 1
  BY <1>1
<1>3. K + MinEx > 2
  BY <1>1
<1>4. (K - 1) * (MinEx - 1) + 1 < MinEx * K /\ (K - 1) * (MinEx - 1) \in Int
  BY <1>1, <1>2, <1>3
<1> QED
  BY <1>1, <1>4 DEF Leftover, Trigger

\* Few unknowns are left from the detection, and few have come since.
LEMMA BufferSmall ==
  ASSUME Trigger >= 3, Inv, TriggerInv
  PROVE  Cardinality(st.unknowns) < UnknownsMax - 1
<1> DEFINE old == {x \in st.unknowns : x <= st.lastNDCheck}
           since == (st.lastNDCheck + 1)..(st.lastNDCheck + Trigger)
<1>1. /\ st.unknowns \subseteq Nat /\ st.lastNDCheck \in Nat
      /\ IsFiniteSet(st.unknowns)
  BY DEF Inv, TypeOK, MinasState, BufferInv
<1>2. IsFiniteSet(old) /\ Cardinality(old) \in Nat /\ Cardinality(old) <= Leftover
  BY <1>1, FS_Subset, FS_CardinalityType DEF TriggerInv
<1>3. /\ Trigger \in Nat /\ UnknownsMax = 2 * Trigger
      /\ Cardinality(st.unknowns) \in Nat
  BY <1>1, Limits, FS_CardinalityType
<1>4. CASE Cardinality(st.unknowns) < Trigger
  BY <1>3, <1>4
<1>5. CASE \A x \in st.unknowns : x <= st.lastNDCheck + Trigger
  <2>1. IsFiniteSet(since) /\ Cardinality(since) = Trigger
    <3>1. st.lastNDCheck + 1 \in Int /\ st.lastNDCheck + Trigger \in Int
      BY <1>1, <1>3
    <3> DEFINE lo == st.lastNDCheck + 1
               hi == st.lastNDCheck + Trigger
    <3>2. /\ IsFiniteSet(lo..hi)
          /\ Cardinality(lo..hi) = IF lo > hi THEN 0 ELSE hi - lo + 1
      BY <3>1, FS_Interval
    <3>3. ~ (lo > hi) /\ hi - lo + 1 = Trigger
      BY <1>1, <1>3
    <3> HIDE DEF lo, hi
    <3>4. Cardinality(lo..hi) = Trigger
      BY <3>2, <3>3
    <3> QED
      BY <3>2, <3>4 DEF lo, hi
  <2>2. st.unknowns \subseteq old \cup since
    BY <1>1, <1>3, <1>5
  <2>3. IsFiniteSet(old \cap since) /\ Cardinality(old \cap since) \in Nat
    BY <1>2, FS_Subset, FS_CardinalityType
  <2>4. IsFiniteSet(old \cup since)
        /\ Cardinality(old \cup since) =
             Cardinality(old) + Cardinality(since) - Cardinality(old \cap since)
    BY <1>2, <2>1, FS_Union
  <2>5. Cardinality(st.unknowns) <= Cardinality(old \cup since)
    BY <2>2, <2>4, FS_Subset
  <2> HIDE DEF old, since
  <2> QED
    BY <1>2, <1>3, <2>1, <2>3, <2>4, <2>5, LeftoverSmall
<1> QED
  BY <1>4, <1>5 DEF TriggerInv

LEMMA HandleTrigger ==
  ASSUME Trigger >= 3, Inv, Inv', TriggerInv, Quiet \/ Joined \/ Detected,
         st'.nextId = st.nextId + 1
  PROVE  TriggerInv'
<1> DEFINE old == {x \in st.unknowns : x <= st.lastNDCheck}
<1>1. /\ st.unknowns \subseteq Nat /\ st.lastNDCheck \in Nat /\ st.nextId \in Nat
      /\ IsFiniteSet(st.unknowns) /\ Cardinality(st.unknowns) \in Nat
      /\ st.lastNDCheck <= st.nextId /\ \A x \in st.unknowns : x < st.nextId
  BY FS_CardinalityType DEF Inv, TypeOK, MinasState, BufferInv
<1>2. CASE Quiet
  BY <1>1, <1>2 DEF Quiet, TriggerInv
<1>3. CASE Joined
  <2>1. st'.lastNDCheck < st'.nextId
    BY <1>1, <1>3 DEF Joined
  <2>2. Cardinality({x \in st'.unknowns : x <= st'.lastNDCheck}) <= Leftover
    <3>1. CASE st.lastNDCheck < st.nextId
      <4>1. {x \in st'.unknowns : x <= st'.lastNDCheck} = old
        BY <1>1, <1>3, <3>1 DEF Joined
      <4> QED
        BY <4>1 DEF TriggerInv
    <3>2. CASE st.lastNDCheck = 0 /\ st.unknowns = {}
      <4>1. st'.unknowns = {st.nextId}
        BY <1>3, <3>2 DEF Joined
      <4>2. IsFiniteSet(st'.unknowns) /\ Cardinality(st'.unknowns) = 1
        BY <4>1, FS_Singleton
      <4>3. {x \in st'.unknowns : x <= st'.lastNDCheck} \in SUBSET st'.unknowns
        OBVIOUS
      <4>4. /\ Cardinality({x \in st'.unknowns : x <= st'.lastNDCheck}) <= 1
            /\ Cardinality({x \in st'.unknowns : x <= st'.lastNDCheck}) \in Nat
        BY <4>2, <4>3, FS_Subset, FS_CardinalityType
      <4> QED
        BY <4>4, LeftoverSmall
    <3> QED
      BY <3>1, <3>2 DEF TriggerInv
  <2>3. \/ Cardinality(st'.unknowns) < Trigger
        \/ \A x \in st'.unknowns : x <= st'.lastNDCheck + Trigger
    <3>1. CASE Cardinality(st'.unknowns) < Trigger
      BY <3>1
    <3>2. CASE st.nextId <= st.lastNDCheck + Trigger
      BY <1>1, <1>3, <3>2, Limits DEF Joined
    <3> QED
      BY <1>3, <3>1, <3>2 DEF Joined
  <2> QED
    BY <1>3, <2>1, <2>2, <2>3 DEF Joined, TriggerInv
<1>4. CASE Detected
  <2>1. st'.unknowns \subseteq st.unknowns \cup {st.nextId} /\ st'.lastNDCheck = st.nextId
    BY <1>4 DEF Detected
  <2>2. \A x \in st'.unknowns : x <= st'.lastNDCheck /\ x <= st'.lastNDCheck + Trigger
    BY <1>1, <2>1, Limits
  <2>3. {x \in st'.unknowns : x <= st'.lastNDCheck} = st'.unknowns
    BY <2>2
  <2>4. Cardinality(st'.unknowns) <= Leftover
    <3>1. IsFiniteSet(st'.unknowns) /\ Cardinality(st'.unknowns) \in Nat
      BY FS_CardinalityType DEF Inv, BufferInv
    <3>2. (K - 1) * (MinEx - 1) \in Int
      BY ParamsAssumption
    <3> QED
      BY <1>4, <3>1, <3>2, LeftoverSmall DEF Detected
  <2>5. Cardinality(round'.present) < UnknownsMax
    <3>1. Cardinality(st.unknowns) < UnknownsMax - 1
      BY BufferSmall
    <3>2. round'.present = st.unknowns \cup {st.nextId}
      BY <1>4 DEF Detected
    <3> DEFINE all == st.unknowns \cup {st.nextId}
    <3>3. /\ IsFiniteSet(all)
          /\ Cardinality(all) = IF st.nextId \in st.unknowns THEN Cardinality(st.unknowns)
                                ELSE Cardinality(st.unknowns) + 1
      BY <1>1, FS_AddElement
    <3>4. Cardinality(all) \in Nat /\ Cardinality(all) <= Cardinality(st.unknowns) + 1
      <4> HIDE DEF all
      <4> QED
        BY <1>1, <3>3, FS_CardinalityType
    <3>5. Cardinality(round'.present) <= Cardinality(st.unknowns) + 1
          /\ Cardinality(round'.present) \in Nat
      BY <3>2, <3>4
    <3> QED
      BY <1>1, <3>1, <3>5, Limits
  <2>6. st'.lastNDCheck < st'.nextId
    BY <1>1, <2>1
  <2> QED
    BY <2>2, <2>3, <2>4, <2>5, <2>6 DEF TriggerInv
<1> QED
  BY <1>2, <1>3, <1>4

LEMMA SameTrigger ==
  ASSUME TriggerInv, SameUnknowns(st, st'), round' = round
  PROVE  TriggerInv'
BY DEF TriggerInv, SameUnknowns

\* The limit of the buffer is never what sets off a novelty detection, unless a
\* run of k-means works on fewer than three examples.
THEOREM TriggerComesFirst == Trigger >= 3 => (Spec => []TriggerBeforeLimit)
<1> SUFFICES ASSUME Trigger >= 3
             PROVE  Spec => []TriggerBeforeLimit
  OBVIOUS
<1>1. Init => TriggerInv
  <2> SUFFICES ASSUME Init PROVE TriggerInv
    OBVIOUS
  <2>1. /\ st.unknowns = {} /\ st.lastNDCheck = 0 /\ round.present = {}
    BY DEF Init, EmptyState
  <2>2. {x \in st.unknowns : x <= st.lastNDCheck} = {}
    BY <2>1
  <2> QED
    BY <2>1, <2>2, FS_EmptySet, LeftoverSmall, Limits DEF TriggerInv
<1>2. ASSUME Inv, Inv', TriggerInv, [Next]_vars
      PROVE  TriggerInv'
  <2>1. ASSUME NEW id \in 0..Len(st.model), NEW label \in LineLabels,
               ClusterLine(id, label)
        PROVE  TriggerInv'
    BY <1>2, <2>1, ClusterLineInv, SameTrigger DEF ClusterLine
  <2>2. ASSUME NEW next \in {"reading", "eof"}, HandleExample(next)
        PROVE  TriggerInv'
    BY <1>2, <2>2, HandleExampleFacts, HandleTrigger
  <2>3. CASE ExampleLine
    BY <2>2, <2>3 DEF ExampleLine
  <2>4. CASE StaleLine
    <3>1. CASE last = "E"
      BY <2>2, <2>4, <3>1 DEF StaleLine
    <3>2. CASE last # "E"
      BY <1>2, <2>4, <3>2, SameTrigger DEF StaleLine, SameUnknowns
    <3> QED
      BY <3>1, <3>2
  <2>5. CASE Finish
    BY <1>2, <2>5, FinishInv, SameTrigger DEF Finish
  <2>6. CASE UNCHANGED vars
    BY <1>2, <2>6, SameTrigger DEF vars, SameUnknowns
  <2> QED
    BY <1>2, <2>1, <2>3, <2>4, <2>5, <2>6 DEF Next
<1>3. TriggerInv /\ Inv => TriggerBeforeLimit
  BY DEF TriggerInv, TriggerBeforeLimit, Inv, BufferInv
<1> QED
  BY <1>1, <1>2, <1>3, Invariance, PTL DEF Spec

-----------------------------------------------------------------------------
\* The instance has a Cardinality of its own.
LEMMA SameCardinality ==
  ASSUME NEW S
  PROVE  Buffer!Cardinality(S) = Cardinality(S)
BY Zenon DEF Cardinality, Buffer!Cardinality

\* A step of the serial program that handles an example is a step of
\* UnknownBuffer, or changes nothing it speaks of.
LEMMA HandleRefines ==
  ASSUME Inv, Inv', st.nextId <= MaxExamples, Quiet \/ Joined \/ Detected
  PROVE  [Buffer!Next]_(Buffer!vars)
<1>1. /\ st.nextId \in Nat /\ st.lastNDCheck \in Nat /\ st.unknowns \subseteq Nat
      /\ st.lastNDCheck <= st.nextId
      /\ \A x \in st.unknowns : /\ x < st.nextId
                                /\ x < st.lastNDCheck => x \in round.present
  BY DEF Inv, TypeOK, MinasState, BufferInv
<1>2. st.nextId \in (0..MaxExamples) \ st.unknowns
  BY <1>1, InputAssumption
<1>3. CASE Quiet
  BY <1>3 DEF Quiet, Buffer!vars
<1>4. CASE Joined
  <2>1. Cardinality(st'.unknowns) < UnknownsMax
    BY DEF Inv, BufferInv
  <2>2. Buffer!Arrive(st.nextId)
    BY <1>4, <2>1, SameCardinality DEF Joined, Buffer!Arrive
  <2> QED
    BY <1>2, <2>2 DEF Buffer!Next
<1>5. CASE Detected
  <2>1. round'.collected \subseteq round.present \ round'.consumed
    BY <1>1, <1>5 DEF Detected
  <2>2. Buffer!Detect(st.nextId)
    BY <1>5, <2>1, SameCardinality DEF Detected, Buffer!Detect
  <2> QED
    BY <1>2, <2>2 DEF Buffer!Next
<1> QED
  BY <1>3, <1>4, <1>5

\* The serial program implements UnknownBuffer: its buffer stays below the
\* limit, each novelty detection explains at least MinEx unknowns, and garbage
\* collection gives up only those the detection before it had looked at.
THEOREM BufferRefinement == Spec => KeepsBufferPromises
<1>1. Init => Buffer!Init
  BY DEF Init, EmptyState, Buffer!Init
<1>2. Inv /\ Inv' /\ [Next]_vars => [Buffer!Next]_(Buffer!vars)
  <2> SUFFICES ASSUME Inv, Inv', [Next]_vars
               PROVE  [Buffer!Next]_(Buffer!vars)
    OBVIOUS
  <2>1. ASSUME NEW id \in 0..Len(st.model), NEW label \in LineLabels,
               ClusterLine(id, label)
        PROVE  [Buffer!Next]_(Buffer!vars)
    <3>1. SameUnknowns(st, st') /\ round' = round
      BY <2>1, ClusterLineInv DEF ClusterLine
    <3> QED
      BY <3>1 DEF SameUnknowns, Buffer!vars
  <2>2. CASE ExampleLine
    BY <2>2, ExampleLineInv, HandleRefines
  <2>3. CASE StaleLine
    BY <2>3, StaleLineInv, HandleRefines
  <2>4. CASE Finish
    <3>1. SameUnknowns(st, st') /\ round' = round
      BY <2>4, FinishInv DEF Finish
    <3> QED
      BY <3>1 DEF SameUnknowns, Buffer!vars
  <2>5. CASE UNCHANGED vars
    BY <2>5 DEF vars, Buffer!vars
  <2> QED
    BY <2>1, <2>2, <2>3, <2>4, <2>5 DEF Next
<1> QED
  BY <1>1, <1>2, Invariance, PTL DEF Spec, Buffer!Spec, KeepsBufferPromises

-----------------------------------------------------------------------------
\* What the last detection looked at is no younger than the unknown that set it
\* off, whose id is lastNDCheck.
PresentInv == \A x \in round.present : x <= st.lastNDCheck

LEMMA StepKinds ==
  ASSUME Inv, [Next]_vars
  PROVE  Quiet \/ Joined \/ Detected
<1>1. ASSUME NEW id \in 0..Len(st.model), NEW label \in LineLabels,
             ClusterLine(id, label)
      PROVE  Quiet
  BY <1>1, ClusterLineInv DEF ClusterLine, SameUnknowns, Quiet
<1>2. CASE Finish
  BY <1>2, FinishInv DEF Finish, SameUnknowns, Quiet
<1>3. CASE UNCHANGED vars
  BY <1>3 DEF vars, Quiet
<1> QED
  BY <1>1, <1>2, <1>3, ExampleLineInv, StaleLineInv DEF Next

LEMMA PresentNext ==
  ASSUME Inv, PresentInv, Quiet \/ Joined \/ Detected
  PROVE  PresentInv'
<1>1. st.nextId \in Nat /\ \A x \in st.unknowns : x \in Nat /\ x < st.nextId
  BY DEF Inv, TypeOK, MinasState, BufferInv
<1>2. CASE Quiet \/ Joined
  BY <1>2 DEF Quiet, Joined, PresentInv
<1>3. CASE Detected
  <2>1. round'.present = st.unknowns \cup {st.nextId} /\ st'.lastNDCheck = st.nextId
    BY <1>3 DEF Detected
  <2> QED
    BY <1>1, <2>1 DEF PresentInv
<1> QED
  BY <1>2, <1>3

\* Of the unknowns a detection has looked at at most one outlives the next one,
\* the one that set it off: minasHandleUnknown gives up all that are older.
THEOREM OnlyOneSecondRound == Spec => OnlyTriggerOutlives
<1>1. Init => PresentInv
  BY DEF Init, PresentInv
<1>2. Inv /\ PresentInv /\ [Next]_vars => PresentInv'
  BY StepKinds, PresentNext
<1>3. Inv /\ PresentInv /\ [Next]_vars =>
        [round' # round =>
           st'.unknowns \cap round.present \subseteq {st.lastNDCheck}]_vars
  <2> SUFFICES ASSUME Inv, PresentInv, [Next]_vars, round' # round,
                      NEW x \in st'.unknowns \cap round.present
               PROVE  x = st.lastNDCheck
    OBVIOUS
  <2>1. Detected
    BY StepKinds DEF Quiet, Joined
  <2>2. /\ st.lastNDCheck \in Nat /\ x \in Nat
        /\ x <= st.lastNDCheck
    BY DEF Inv, TypeOK, MinasState, PresentInv
  <2>3. x \in round'.present \ round'.consumed /\ x \notin round'.collected
    BY <2>1 DEF Detected
  <2>4. ~ (x < st.lastNDCheck)
    BY <2>1, <2>3 DEF Detected
  <2> QED
    BY <2>2, <2>4
<1> QED
  BY <1>1, <1>2, <1>3, Invariance, PTL DEF Spec, OnlyTriggerOutlives

-----------------------------------------------------------------------------
\* Labels of lines that leave room: addCluster sets nextLabel to one above such a
\* label, and noveltyDetection takes that for its first novelty unlooked at.
LabelsLeaveRoom ==
  \A l \in LineLabels : l \in Reserved \ {Unk} \/ l + 1 \notin Reserved

\* A line's cluster keeps the labels in order.
LEMMA AddClusterInOrder ==
  ASSUME NEW s \in MinasState, NEW c \in Cluster, LabelsInOrder(s),
         c.label \in Reserved \ {Unk} \/ c.label + 1 \notin Reserved,
         c.novel = FALSE
  PROVE  LabelsInOrder(AddCluster(s, c))
<1> DEFINE t == AddCluster(s, c)
           L == Len(s.model)
           old == s.model
           new == t.model
<1>1. s.model \in Seq(Cluster) /\ s.nextLabel \in Nat /\ L \in Nat
      /\ c.label \in Nat
  BY DEF MinasState, Cluster
<1>2. new = Append(old, c)
  BY DEF AddCluster, MinasState
<1>3. t.nextLabel = IF c.label \notin Reserved \ {Unk} /\ s.nextLabel <= c.label
                      THEN c.label + 1 ELSE s.nextLabel
  BY DEF AddCluster, MinasState
<1>4. /\ Len(new) = L + 1 /\ new[L + 1] = c
      /\ \A i \in 1..L : new[i] = old[i]
  BY <1>1, <1>2
<1>5. \A i \in 1..L : old[i] \in Cluster
  BY <1>1
<1>6. /\ s.nextLabel \notin Reserved
      /\ \A i \in 1..L : old[i].label \in Reserved \/ old[i].label < s.nextLabel
      /\ \A i \in 1..L : old[i].novel =>
           /\ old[i].label \notin Reserved
           /\ \A j \in 1..(i - 1) : old[j].label # old[i].label
  BY DEF LabelsInOrder
<1> HIDE DEF t, L, old, new
<1>7. /\ t.nextLabel \in Nat /\ t.nextLabel \notin Reserved
      /\ s.nextLabel <= t.nextLabel
      /\ c.label \in Reserved \/ c.label < t.nextLabel
  BY <1>1, <1>3, <1>6
<1>8. ASSUME NEW i \in 1..(L + 1)
      PROVE  new[i].label \in Reserved \/ new[i].label < t.nextLabel
  <2>1. CASE i \in 1..L
    <3>1. old[i].label \in Nat
      BY <1>5, <2>1 DEF Cluster
    <3> QED
      BY <1>1, <1>4, <1>6, <1>7, <2>1, <3>1
  <2>2. CASE i = L + 1
    BY <1>4, <1>7, <2>2
  <2> QED
    BY <1>1, <2>1, <2>2
<1>9. ASSUME NEW i \in 1..(L + 1), new[i].novel
      PROVE  /\ new[i].label \notin Reserved
             /\ \A j \in 1..(i - 1) : new[j].label # new[i].label
  <2>1. i \in 1..L
    BY <1>1, <1>4, <1>9
  <2>2. new[i] = old[i] /\ \A j \in 1..(i - 1) : new[j] = old[j]
    BY <1>1, <1>4, <2>1
  <2> QED
    BY <1>6, <1>9, <2>1, <2>2
<1> QED
  BY <1>4, <1>7, <1>8, <1>9 DEF LabelsInOrder, t, L, old, new

LEMMA HandleExampleInOrder ==
  ASSUME Inv, LabelsInOrder(st), NEW next \in {"reading", "eof"}, HandleExample(next)
  PROVE  LabelsInOrder(st')
<1> DEFINE id == st.nextId
           s == [st EXCEPT !.currId = id, !.nextId = id + 1]
<1>1. st \in MinasState /\ id \in Nat
  BY DEF Inv, TypeOK, MinasState
<1> HIDE DEF id
<1>2. s \in MinasState /\ s.model = st.model /\ s.nextLabel = st.nextLabel
  <2>1. id + 1 \in Nat
    BY <1>1
  <2> QED
    BY <1>1, <2>1 DEF MinasState
<1>3. LabelsInOrder(s)
  BY <1>2 DEF LabelsInOrder
<1> HIDE DEF s
<1>4. CASE Len(st.model) < K
  BY <1>3, <1>4 DEF HandleExample, s, id
<1>5. CASE ~ (Len(st.model) < K)
  <2>1. PICK match \in Identify(s, id) :
          \/ st' = HandleSleep(match.state)
          \/ \E h \in HandleUnknown(HandleSleep(match.state), id) : st' = h.state
    BY <1>5 DEF HandleExample, s, id
  <2> DEFINE t == HandleSleep(match.state)
  <2>2. t \in MinasState /\ LabelsInOrder(t)
    BY <1>1, <1>2, <1>3, MatchExtends
  <2> HIDE DEF t
  <2>3. ASSUME NEW h \in HandleUnknown(t, id)
        PROVE  LabelsInOrder(h.state)
    BY <1>1, <2>2, HandleUnknownExtends
  <2> QED
    BY <2>1, <2>2, <2>3 DEF t
<1> QED
  BY <1>4, <1>5

\* A novelty gets a label no earlier cluster has, and never a letter or '-'.
THEOREM NoveltiesAreNew == LabelsLeaveRoom => (Spec => []NoveltyLabelsFresh)
<1> SUFFICES ASSUME LabelsLeaveRoom
             PROVE  Spec => []NoveltyLabelsFresh
  OBVIOUS
<1>1. Init => LabelsInOrder(st)
  BY LabelsAssumption DEF Init, EmptyState, LabelsInOrder
<1>2. ASSUME Inv, LabelsInOrder(st), [Next]_vars
      PROVE  LabelsInOrder(st)'
  <2>0. st \in MinasState
    BY <1>2 DEF Inv, TypeOK
  <2>1. ASSUME NEW id \in 0..Len(st.model), NEW label \in LineLabels,
               ClusterLine(id, label)
        PROVE  LabelsInOrder(st')
    <3> DEFINE c == [id |-> id, label |-> label, latest |-> UInt(st.currId),
                     isSleep |-> garbage, novel |-> FALSE,
                     touched |-> TouchedAt(st.currId)]
    <3>1. /\ UInt(st.currId) \in Nat /\ TouchedAt(st.currId) \in 0..Tracked
          /\ garbage \in BOOLEAN
      BY <1>2, UIntType, TouchedFacts, InputAssumption DEF Inv, TypeOK, MinasState
    <3>2. id \in Nat /\ label \in Nat
      BY <2>0, InputAssumption DEF MinasState
    <3>3. c \in Cluster /\ c.label = label /\ c.novel = FALSE
      BY <3>1, <3>2 DEF Cluster
    <3>4. st' = AddCluster(st, c) \/ st' = st
      BY <2>1 DEF ClusterLine
    <3> HIDE DEF c
    <3>5. label \in Reserved \ {Unk} \/ label + 1 \notin Reserved
      BY DEF LabelsLeaveRoom
    <3> QED
      BY <1>2, <2>0, <3>3, <3>4, <3>5, AddClusterInOrder
  <2>2. ASSUME NEW next \in {"reading", "eof"}, HandleExample(next)
        PROVE  LabelsInOrder(st')
    BY <1>2, <2>2, HandleExampleInOrder
  <2>3. CASE ExampleLine
    BY <2>2, <2>3 DEF ExampleLine
  <2>4. CASE StaleLine
    BY <1>2, <2>2, <2>4 DEF StaleLine
  <2>5. CASE Finish
    <3>1. /\ RestoreSleep(st) \in MinasState /\ SameBuffer(st, RestoreSleep(st))
          /\ SameClusters(st.model, RestoreSleep(st).model)
      BY <2>0, RestoreSleepType, RestoreSleepModel
    <3>2. LabelsInOrder(RestoreSleep(st))
      BY <1>2, <2>0, <3>1, SameClustersFacts DEF SameBuffer
    <3> QED
      BY <2>5, <3>2 DEF Finish
  <2>6. CASE UNCHANGED vars
    BY <1>2, <2>6 DEF vars
  <2> QED
    BY <1>2, <2>1, <2>3, <2>4, <2>5, <2>6 DEF Next
<1>3. Inv /\ LabelsInOrder(st) => NoveltyLabelsFresh
  BY DEF LabelsInOrder, NoveltyLabelsFresh, Inv, TypeOK, MinasState
<1> QED
  BY <1>1, <1>2, <1>3, Invariance, PTL DEF Spec

-----------------------------------------------------------------------------
\* What the sleep of clusters keeps to.  However clusters start, none was matched
\* later than now and sleepCounter never counts too many of them; when they start
\* awake it counts exactly, the sleepers are stale and somebody is awake.
InTime(s) == \A i \in 1..Len(s.model) : s.model[i].latest <= s.currId

NotOvercounted(s) == s.sleepCounter <= Cardinality(Asleep(s.model))

SleepInOrder(s) ==
  /\ s.sleepCounter = Cardinality(Asleep(s.model))
  /\ \A i \in Asleep(s.model) :
       s.currId - s.model[i].latest > ThresholdForgetting
  /\ s.model # <<>> => Awake(s.model) # {}

\* The sets of clusters asleep and awake.
LEMMA AsleepFinite ==
  ASSUME NEW s \in MinasState
  PROVE  /\ Asleep(s.model) = {i \in 1..Len(s.model) : s.model[i].isSleep}
         /\ Awake(s.model) = {i \in 1..Len(s.model) : ~ s.model[i].isSleep}
         /\ IsFiniteSet(Asleep(s.model)) /\ IsFiniteSet(Awake(s.model))
         /\ Cardinality(Asleep(s.model)) \in Nat
         /\ Cardinality(Awake(s.model)) \in Nat
         /\ Len(s.model) = Cardinality(Asleep(s.model)) + Cardinality(Awake(s.model))
<1> DEFINE A == Asleep(s.model)
           W == Awake(s.model)
<1>1. Len(s.model) \in Nat /\ DOMAIN s.model = 1..Len(s.model)
  BY DEF MinasState
<1>2. /\ A = {i \in 1..Len(s.model) : s.model[i].isSleep}
      /\ W = {i \in 1..Len(s.model) : ~ s.model[i].isSleep}
  BY <1>1 DEF Asleep, Awake
<1>3. /\ A \cup W = 1..Len(s.model) /\ A \cap W = {}
      /\ A \subseteq 1..Len(s.model) /\ W \subseteq 1..Len(s.model)
  BY <1>2
<1>4. IsFiniteSet(1..Len(s.model)) /\ Cardinality(1..Len(s.model)) = Len(s.model)
  <2> DEFINE n == Len(s.model)
  <2>1. n \in Nat
    BY <1>1
  <2> HIDE DEF n
  <2>2. IsFiniteSet(1..n) /\ Cardinality(1..n) = n
    BY <2>1, FS_Interval
  <2> QED
    BY <2>2 DEF n
<1> HIDE DEF A, W
<1>5. IsFiniteSet(A) /\ IsFiniteSet(W)
  BY <1>3, <1>4, FS_Subset
<1>6. Cardinality(A) \in Nat /\ Cardinality(W) \in Nat
  BY <1>5, FS_CardinalityType
<1>7. Cardinality(A \cup W) = Cardinality(A) + Cardinality(W) - Cardinality(A \cap W)
  BY <1>5, FS_Union
<1>8. Cardinality(A \cap W) = 0
  BY <1>3, FS_EmptySet
<1>9. Len(s.model) = Cardinality(A) + Cardinality(W)
  <2>1. Cardinality(A \cup W) = Len(s.model)
    BY <1>3, <1>4
  <2> QED
    BY <1>6, <1>7, <1>8, <2>1
<1>10. /\ A = {i \in 1..Len(s.model) : s.model[i].isSleep}
       /\ W = {i \in 1..Len(s.model) : ~ s.model[i].isSleep}
  BY <1>2 DEF A, W
<1> QED
  BY <1>5, <1>6, <1>9, <1>10 DEF A, W

\* Of a finite set of numbers no more than n have fewer than n below them.
LEMMA FirstOfSet ==
  ASSUME NEW m \in Nat, NEW S \in SUBSET (1..m), NEW n \in Nat
  PROVE  Cardinality({i \in S : Before(S, i) < n}) <= n
<1> DEFINE F == {i \in S : Before(S, i) < n}
           place == [i \in F |-> Before(S, i) + 1]
<1>1. /\ \A i \in S : Before(S, i) \in 0..m
      /\ \A i, j \in S : i < j => Before(S, i) < Before(S, j)
  BY BeforeGoesUp
<1>2. F \subseteq S /\ \A i \in F : Before(S, i) < n /\ i \in 1..m
  OBVIOUS
<1>3. place \in [F -> 1..n]
  <2> SUFFICES ASSUME NEW i \in F PROVE Before(S, i) + 1 \in 1..n
    OBVIOUS
  <2>1. Before(S, i) \in 0..m /\ Before(S, i) < n
    BY <1>1, <1>2
  <2> QED
    BY <2>1
<1>4. \A i, j \in F : place[i] = place[j] => i = j
  <2> SUFFICES ASSUME NEW i \in F, NEW j \in F, place[i] = place[j] PROVE i = j
    OBVIOUS
  <2>1. Before(S, i) = Before(S, j) /\ Before(S, i) \in 0..m
    <3>1. Before(S, i) + 1 = Before(S, j) + 1
      OBVIOUS
    <3> QED
      BY <1>1, <1>2, <3>1
  <2> QED
    BY <1>1, <1>2, <2>1
<1>5. place \in Injection(F, 1..n)
  BY <1>3, <1>4 DEF Injection, IsInjective
<1>6. IsFiniteSet(1..n) /\ Cardinality(1..n) = n
  BY FS_Interval
<1> HIDE DEF F, place
<1>7. Cardinality(F) <= n
  BY <1>5, <1>6, FS_Injection
<1> QED
  BY <1>7 DEF F

\* minasHandleSleep puts few to sleep.
LEMMA PutToSleepFew ==
  ASSUME NEW s \in MinasState
  PROVE  Cardinality(PutToSleep(s)) <= 2 * K
<1>1. K \in Nat /\ K >= 1 /\ s.sleepCounter \in Nat /\ Len(s.model) \in Nat
  BY ParamsAssumption DEF MinasState
<1>2. Stale(s) \in SUBSET (1..Len(s.model)) /\ Stale(s) \subseteq Awake(s.model)
  BY <1>1 DEF Stale, Awake, MinasState
<1>3. CASE s.sleepCounter < 2 * K
  <2> DEFINE n == 2 * K - s.sleepCounter
  <2>1. n \in Nat /\ n <= 2 * K
    BY <1>1, <1>3
  <2>2. PutToSleep(s) = {i \in Stale(s) : Before(Stale(s), i) < n}
    BY <1>3 DEF PutToSleep, Before
  <2> HIDE DEF n
  <2>3. Cardinality(PutToSleep(s)) <= n
    BY <1>1, <1>2, <2>1, <2>2, FirstOfSet
  <2>4. Cardinality(PutToSleep(s)) \in Nat
    BY PutToSleepFinite
  <2> QED
    BY <1>1, <2>1, <2>3, <2>4
<1>4. CASE ~ (s.sleepCounter < 2 * K)
  <2>1. PutToSleep(s) = {i \in Stale(s) : \A j \in Awake(s.model) : i <= j}
    BY <1>4 DEF PutToSleep
  <2>2. \A i, j \in PutToSleep(s) : i = j
    BY <1>1, <1>2, <2>1
  <2>3. Cardinality(PutToSleep(s)) <= 1
    <3>1. CASE PutToSleep(s) = {}
      BY <3>1, FS_EmptySet
    <3>2. CASE \E i : i \in PutToSleep(s)
      <4>1. PICK i : i \in PutToSleep(s)
        BY <3>2
      <4>2. PutToSleep(s) = {i}
        BY <2>2, <4>1
      <4> QED
        BY <4>2, FS_Singleton
    <3> QED
      BY <3>1, <3>2
  <2>4. Cardinality(PutToSleep(s)) \in Nat
    BY PutToSleepFinite
  <2> QED
    BY <1>1, <2>3, <2>4
<1> QED
  BY <1>3, <1>4

LEMMA UIntBound ==
  ASSUME NEW n \in Nat
  PROVE  UInt(n) \in Nat /\ UInt(n) <= n
BY ParamsAssumption DEF UInt

\* Waking everybody keeps the order, and leaves nobody asleep.
LEMMA RestoreInOrder ==
  ASSUME NEW s \in MinasState
  PROVE  LET r == RestoreSleep(s)
         IN /\ InTime(s) => InTime(r)
            /\ NotOvercounted(r) \/ (s.sleepCounter = 0 /\ r = s)
            /\ SleepInOrder(s) => SleepInOrder(r) /\ Asleep(r.model) = {}
<1> DEFINE r == RestoreSleep(s)
<1>1. /\ r \in MinasState /\ Len(r.model) = Len(s.model) /\ r.currId = s.currId
      /\ s.currId \in Nat /\ Len(s.model) \in Nat
      /\ UInt(s.currId) \in Nat /\ UInt(s.currId) <= s.currId
  BY RestoreSleepType, UIntBound DEF SameBuffer, MinasState
<1>2. /\ s.sleepCounter = 0 => r = s
      /\ s.sleepCounter # 0 =>
           /\ r.sleepCounter = 0
           /\ \A i \in 1..Len(s.model) : /\ r.model[i].latest = UInt(s.currId)
                                         /\ r.model[i].isSleep = FALSE
  BY RestoreSleepModel
<1>3. /\ Asleep(s.model) = {i \in 1..Len(s.model) : s.model[i].isSleep}
      /\ IsFiniteSet(Asleep(s.model))
  BY AsleepFinite
<1>4. /\ Asleep(r.model) = {i \in 1..Len(r.model) : r.model[i].isSleep}
      /\ Awake(r.model) = {i \in 1..Len(r.model) : ~ r.model[i].isSleep}
      /\ Cardinality(Asleep(r.model)) \in Nat
  BY <1>1, AsleepFinite
<1>5. s.model = <<>> <=> Len(s.model) = 0
  BY DEF MinasState
<1>6. r.model = <<>> <=> Len(r.model) = 0
  BY <1>1 DEF MinasState
<1> HIDE DEF r
<1>7. CASE s.sleepCounter = 0
  <2>1. SleepInOrder(s) => Asleep(s.model) = {}
    BY <1>3, <1>7, FS_EmptySet DEF SleepInOrder
  <2> QED
    BY <1>2, <1>7, <2>1 DEF r
<1>8. CASE s.sleepCounter # 0
  <2>1. Asleep(r.model) = {}
    BY <1>1, <1>2, <1>4, <1>8
  <2>2. Cardinality(Asleep(r.model)) = 0
    BY <2>1, FS_EmptySet
  <2>3. InTime(r)
    BY <1>1, <1>2, <1>8 DEF InTime
  <2>4. r.model # <<>> => 1 \in Awake(r.model)
    BY <1>1, <1>2, <1>4, <1>6, <1>8
  <2>5. SleepInOrder(r)
    BY <1>2, <1>8, <2>1, <2>2, <2>4 DEF SleepInOrder
  <2>6. NotOvercounted(r)
    BY <1>2, <1>8, <2>2 DEF NotOvercounted
  <2> QED
    BY <2>1, <2>3, <2>5, <2>6 DEF r
<1> QED
  BY <1>7, <1>8

\* A match refreshes a cluster that is awake, or anyone when nobody sleeps.
LEMMA AnswerInOrder ==
  ASSUME NEW s \in MinasState, NEW i \in DOMAIN s.model, NEW isMatch \in BOOLEAN
  PROVE  LET t == Answer(s, i, s.currId, isMatch).state
         IN /\ InTime(s) => InTime(t)
            /\ NotOvercounted(s) => NotOvercounted(t)
            /\ SleepInOrder(s) /\ i \notin Asleep(s.model) => SleepInOrder(t)
<1> DEFINE t == Answer(s, i, s.currId, isMatch).state
<1>0. /\ s.currId \in Nat /\ i \in 1..Len(s.model)
      /\ UInt(s.currId) \in Nat /\ UInt(s.currId) <= s.currId
  <2>1. s.currId \in Nat /\ i \in 1..Len(s.model)
    BY DEF MinasState
  <2> QED
    BY <2>1, UIntBound
<1>1. t \in MinasState /\ SameBuffer(s, t) /\ Len(t.model) = Len(s.model)
  BY <1>0, AnswerType DEF SameBuffer
<1>2. /\ t.sleepCounter = s.sleepCounter
      /\ t.currId = s.currId
      /\ t.model[i].latest = UInt(s.currId)
      /\ \A j \in 1..Len(s.model) :
           /\ t.model[j].isSleep = s.model[j].isSleep
           /\ j # i => t.model[j] = s.model[j]
  BY <1>0, AnswerModel
<1>3. /\ Asleep(s.model) = {j \in 1..Len(s.model) : s.model[j].isSleep}
      /\ Awake(s.model) = {j \in 1..Len(s.model) : ~ s.model[j].isSleep}
  BY AsleepFinite
<1>4. /\ Asleep(t.model) = {j \in 1..Len(t.model) : t.model[j].isSleep}
      /\ Awake(t.model) = {j \in 1..Len(t.model) : ~ t.model[j].isSleep}
  BY <1>1, AsleepFinite
<1> HIDE DEF t
<1>5. Asleep(t.model) = Asleep(s.model) /\ Awake(t.model) = Awake(s.model)
  BY <1>1, <1>2, <1>3, <1>4
<1>6. InTime(s) => InTime(t)
  <2> SUFFICES ASSUME InTime(s), NEW j \in 1..Len(t.model)
               PROVE  t.model[j].latest <= t.currId
    BY DEF InTime
  <2> QED
    BY <1>0, <1>1, <1>2 DEF InTime
<1>7. t.model # <<>> => s.model # <<>>
  BY <1>0, <1>1 DEF MinasState
<1>8. SleepInOrder(s) /\ i \notin Asleep(s.model) => SleepInOrder(t)
  BY <1>2, <1>3, <1>5, <1>7 DEF SleepInOrder
<1> QED
  BY <1>2, <1>5, <1>6, <1>8 DEF NotOvercounted, t

LEMMA IdentifyInOrder ==
  ASSUME NEW s \in MinasState, NEW match \in Identify(s, s.currId)
  PROVE  LET t == match.state
         IN /\ t.currId = s.currId
            /\ InTime(s) => InTime(t)
            /\ NotOvercounted(s) => NotOvercounted(t)
            /\ SleepInOrder(s) => SleepInOrder(t)
<1> DEFINE r == RestoreSleep(s)
<1>0. s.currId \in Nat
  BY DEF MinasState
<1>1. /\ r \in MinasState /\ SameBuffer(s, r) /\ r.currId = s.currId
      /\ DOMAIN r.model = DOMAIN s.model
  BY RestoreSleepType DEF SameBuffer, MinasState
<1>2. match.state.currId = s.currId
  BY <1>0, IdentifyType DEF SameBuffer
<1>3. ASSUME NEW i \in NearestAwake(s.model) \ {0}, NEW isMatch \in BOOLEAN,
             match = Answer(s, i, s.currId, isMatch)
      PROVE  /\ InTime(s) => InTime(match.state)
             /\ NotOvercounted(s) => NotOvercounted(match.state)
             /\ SleepInOrder(s) => SleepInOrder(match.state)
  <2>1. i \in DOMAIN s.model /\ i \notin Asleep(s.model)
    BY DEF NearestAwake, Awake, Asleep
  <2> QED
    BY <1>3, <2>1, AnswerInOrder
<1>4. ASSUME NEW i \in DOMAIN s.model, NEW isMatch \in BOOLEAN,
             match = Answer(r, i, s.currId, isMatch)
      PROVE  /\ InTime(s) => InTime(match.state)
             /\ NotOvercounted(s) => NotOvercounted(match.state)
             /\ SleepInOrder(s) => SleepInOrder(match.state)
  <2>1. /\ InTime(s) => InTime(r)
        /\ NotOvercounted(s) => NotOvercounted(r)
        /\ SleepInOrder(s) => SleepInOrder(r) /\ Asleep(r.model) = {}
    BY RestoreInOrder
  <2> HIDE DEF r
  <2>2. /\ InTime(r) => InTime(match.state)
        /\ NotOvercounted(r) => NotOvercounted(match.state)
        /\ SleepInOrder(r) /\ i \notin Asleep(r.model) => SleepInOrder(match.state)
    BY <1>1, <1>4, AnswerInOrder
  <2> QED
    BY <2>1, <2>2
<1> QED
  BY <1>2, <1>3, <1>4 DEF Identify

\* Putting clusters to sleep counts them, takes stale ones and leaves some awake.
LEMMA HandleSleepInOrder ==
  ASSUME NEW s \in MinasState
  PROVE  LET t == HandleSleep(s)
         IN /\ InTime(s) => InTime(t)
            /\ NotOvercounted(s) => NotOvercounted(t)
            /\ InTime(s) /\ SleepInOrder(s) => SleepInOrder(t)
<1> DEFINE t == HandleSleep(s)
           P == PutToSleep(s)
<1>1. t \in MinasState /\ Len(t.model) = Len(s.model)
  BY HandleSleepType DEF SameBuffer
<1>2. /\ P \subseteq Awake(s.model) /\ IsFiniteSet(P) /\ Cardinality(P) \in Nat
      /\ P \subseteq Stale(s)
      /\ Cardinality(P) <= 2 * K
  BY PutToSleepFinite, PutToSleepFew DEF PutToSleep
<1>3. /\ Asleep(s.model) = {j \in 1..Len(s.model) : s.model[j].isSleep}
      /\ Awake(s.model) = {j \in 1..Len(s.model) : ~ s.model[j].isSleep}
  BY AsleepFinite
<1>11. /\ IsFiniteSet(Asleep(s.model)) /\ IsFiniteSet(Awake(s.model))
       /\ Cardinality(Asleep(s.model)) \in Nat /\ Cardinality(Awake(s.model)) \in Nat
       /\ Len(s.model) = Cardinality(Asleep(s.model)) + Cardinality(Awake(s.model))
  BY AsleepFinite
<1>4. /\ Asleep(t.model) = {j \in 1..Len(t.model) : t.model[j].isSleep}
      /\ Awake(t.model) = {j \in 1..Len(t.model) : ~ t.model[j].isSleep}
  BY <1>1, AsleepFinite
<1>5. s.sleepCounter \in Nat /\ s.currId \in Nat /\ K \in Nat /\ Len(s.model) \in Nat
      /\ ThresholdForgetting \in Nat
  BY ParamsAssumption DEF MinasState
<1>6. \/ t = s
      \/ /\ Len(s.model) - s.sleepCounter > 2 * K
         /\ t.sleepCounter = s.sleepCounter + Cardinality(P)
         /\ t.currId = s.currId
         /\ \A i \in 1..Len(s.model) :
              /\ t.model[i].latest = s.model[i].latest
              /\ i \in P => t.model[i].isSleep = TRUE
              /\ i \notin P => t.model[i] = s.model[i]
  BY HandleSleepModel
<1>7. \A i \in 1..Len(s.model) : s.model[i] \in Cluster
  BY DEF MinasState
<1>8. \A i \in Stale(s) : UDiffExceeds(s.currId, s.model[i].latest, ThresholdForgetting)
  BY DEF Stale
<1> HIDE DEF t, P
<1>9. CASE t = s
  BY <1>9 DEF t
<1>10. CASE /\ Len(s.model) - s.sleepCounter > 2 * K
            /\ t.sleepCounter = s.sleepCounter + Cardinality(P)
            /\ t.currId = s.currId
            /\ \A i \in 1..Len(s.model) :
                 /\ t.model[i].latest = s.model[i].latest
                 /\ i \in P => t.model[i].isSleep = TRUE
                 /\ i \notin P => t.model[i] = s.model[i]
  <2>1. InTime(s) => InTime(t)
    BY <1>1, <1>10 DEF InTime
  <2>2. /\ Asleep(t.model) = Asleep(s.model) \cup P
        /\ Asleep(s.model) \cap P = {}
        /\ Awake(t.model) = Awake(s.model) \ P
    BY <1>1, <1>2, <1>3, <1>4, <1>10
  <2>3. Cardinality(Asleep(t.model)) = Cardinality(Asleep(s.model)) + Cardinality(P)
    <3>1. Cardinality(Asleep(s.model) \cup P)
            = Cardinality(Asleep(s.model)) + Cardinality(P)
              - Cardinality(Asleep(s.model) \cap P)
      BY <1>2, <1>11, FS_Union
    <3>2. Cardinality(Asleep(s.model) \cap P) = 0
      BY <2>2, FS_EmptySet
    <3> QED
      BY <1>2, <1>11, <2>2, <3>1, <3>2
  <2>4. NotOvercounted(s) => NotOvercounted(t)
    BY <1>2, <1>11, <1>5, <1>10, <2>3 DEF NotOvercounted
  <2>5. ASSUME InTime(s), SleepInOrder(s)
        PROVE  SleepInOrder(t)
    <3>1. t.sleepCounter = Cardinality(Asleep(t.model))
      BY <1>10, <2>3, <2>5 DEF SleepInOrder
    <3>2. ASSUME NEW i \in Asleep(t.model)
          PROVE  t.currId - t.model[i].latest > ThresholdForgetting
      <4>1. i \in 1..Len(s.model) /\ t.model[i].latest = s.model[i].latest
            /\ s.model[i].latest \in Nat /\ s.model[i].latest <= s.currId
        BY <1>1, <1>4, <1>7, <1>10, <2>5 DEF InTime, Cluster
      <4>2. CASE i \in Asleep(s.model)
        BY <1>10, <2>5, <4>1, <4>2 DEF SleepInOrder
      <4>3. CASE i \in P
        <5>1. UDiffExceeds(s.currId, s.model[i].latest, ThresholdForgetting)
          BY <1>2, <1>8, <4>3
        <5> QED
          BY <1>5, <1>10, <4>1, <5>1 DEF UDiffExceeds
      <4> QED
        BY <2>2, <4>2, <4>3
    <3>3. Awake(s.model) \ P # {}
      <4>1. Cardinality(Awake(s.model)) > 2 * K
        BY <1>11, <1>5, <1>10, <2>5 DEF SleepInOrder
      <4>2. Awake(s.model) # P
        BY <1>2, <1>5, <1>11, <4>1
      <4> QED
        BY <1>2, <4>2
    <3> QED
      BY <2>2, <3>1, <3>2, <3>3 DEF SleepInOrder
  <2> QED
    BY <2>1, <2>4, <2>5 DEF t
<1> QED
  BY <1>6, <1>9, <1>10

\* New clusters are awake and count as matched at 0.
LEMMA AppendedInOrder ==
  ASSUME NEW s \in MinasState, NEW t \in MinasState, NEW m \in Nat,
         NEW labels, NEW novelties, Appended(s, t, m, labels, novelties),
         t.currId = s.currId, t.sleepCounter = s.sleepCounter
  PROVE  /\ InTime(s) => InTime(t)
         /\ NotOvercounted(s) => NotOvercounted(t)
         /\ SleepInOrder(s) => SleepInOrder(t)
<1> DEFINE L == Len(s.model)
           old == s.model
           new == t.model
<1>1. L \in Nat /\ s.currId \in Nat
  BY DEF MinasState
<1>2. /\ Len(new) = L + m
      /\ \A i \in 1..L : new[i] = old[i]
      /\ \A k \in 1..m : /\ new[L + k].latest = 0
                         /\ new[L + k].isSleep = FALSE
  BY DEF Appended
<1>3. /\ Asleep(old) = {j \in 1..L : old[j].isSleep}
      /\ Awake(old) = {j \in 1..L : ~ old[j].isSleep}
      /\ Asleep(new) = {j \in 1..Len(new) : new[j].isSleep}
      /\ Awake(new) = {j \in 1..Len(new) : ~ new[j].isSleep}
  BY AsleepFinite
<1>4. (old = <<>> <=> L = 0) /\ (new = <<>> <=> Len(new) = 0)
  BY DEF MinasState
<1> HIDE DEF L, old, new
<1>5. ASSUME NEW i \in 1..(L + m)
      PROVE  i \in 1..L \/ (i \notin 1..L /\ new[i].latest = 0 /\ new[i].isSleep = FALSE)
  <2>1. CASE ~ (i \in 1..L)
    <3>1. i - L \in 1..m /\ i = L + (i - L)
      BY <1>1, <2>1
    <3> QED
      BY <1>2, <2>1, <3>1
  <2> QED
    BY <2>1
<1>6. 1..L \subseteq 1..(L + m)
  BY <1>1
<1>7. Asleep(new) = Asleep(old) /\ Awake(old) \subseteq Awake(new)
  BY <1>2, <1>3, <1>5, <1>6
<1>8. L = 0 /\ new # <<>> => 1 \in Awake(new)
  BY <1>1, <1>2, <1>3, <1>4, <1>5
<1>9. InTime(s) => InTime(t)
  <2> SUFFICES ASSUME \A i \in 1..L : old[i].latest <= s.currId,
                      NEW i \in 1..(L + m)
               PROVE  new[i].latest <= s.currId
    BY <1>2 DEF InTime, L, old, new
  <2> QED
    BY <1>1, <1>2, <1>5, SMTT(20)
<1>10. ASSUME SleepInOrder(s)
       PROVE  SleepInOrder(t)
  <2>1. /\ s.sleepCounter = Cardinality(Asleep(old))
        /\ \A i \in Asleep(old) : s.currId - old[i].latest > ThresholdForgetting
        /\ old # <<>> => Awake(old) # {}
    BY <1>10 DEF SleepInOrder, old
  <2>2. \A i \in Asleep(new) : new[i] = old[i]
    BY <1>2, <1>3, <1>7
  <2>3. new # <<>> => Awake(new) # {}
    BY <1>4, <1>7, <1>8, <2>1
  <2> QED
    BY <1>7, <2>1, <2>2, <2>3 DEF SleepInOrder, new
<1>11. NotOvercounted(s) => NotOvercounted(t)
  BY <1>7 DEF NotOvercounted, old, new
<1> QED
  BY <1>9, <1>10, <1>11

LEMMA HandleUnknownInOrder ==
  ASSUME NEW s \in MinasState, NEW id \in Nat, NEW h \in HandleUnknown(s, id),
         h.state \in MinasState
  PROVE  s.currId = id =>
           /\ h.state.currId = id
           /\ InTime(s) => InTime(h.state)
           /\ NotOvercounted(s) => NotOvercounted(h.state)
           /\ SleepInOrder(s) => SleepInOrder(h.state)
<1> DEFINE t == [s EXCEPT !.currId = id, !.unknowns = @ \cup {id}]
           r == RestoreSleep(t)
           u == h.state
<1>2. /\ t \in MinasState /\ r \in MinasState /\ SameBuffer(t, r) /\ u.currId = id
      /\ \/ /\ u.model = s.model
            /\ u.sleepCounter = s.sleepCounter
            /\ u.nextLabel = s.nextLabel
         \/ /\ u.sleepCounter = r.sleepCounter
            /\ \E m \in Nat : \E novelties \in SUBSET (1..m) :
               \E run \in LabelRuns(r.nextLabel, m) :
               \E labels \in Labellings(r.model, m, novelties, run) :
                 /\ Appended(r, u, m, labels, novelties)
                 /\ u.nextLabel = run[Cardinality(novelties)]
  BY HandleUnknownModel
<1>3. t \in MinasState
  BY <1>2
<1> SUFFICES ASSUME s.currId = id
             PROVE  /\ u.currId = id
                    /\ InTime(s) => InTime(u)
                    /\ NotOvercounted(s) => NotOvercounted(u)
                    /\ SleepInOrder(s) => SleepInOrder(u)
  OBVIOUS
<1>1. /\ t.model = s.model /\ t.sleepCounter = s.sleepCounter /\ t.currId = s.currId
  BY DEF MinasState
<1>4. /\ InTime(t) => InTime(r)
      /\ NotOvercounted(t) => NotOvercounted(r)
      /\ SleepInOrder(t) => SleepInOrder(r)
  <2> HIDE DEF t
  <2> QED
    BY <1>3, RestoreInOrder
<1> HIDE DEF t, r, u
<1>5. /\ InTime(s) => InTime(t)
      /\ NotOvercounted(s) => NotOvercounted(t)
      /\ SleepInOrder(s) => SleepInOrder(t)
  BY <1>1 DEF InTime, NotOvercounted, SleepInOrder
<1>6. ASSUME u.model = s.model, u.sleepCounter = s.sleepCounter
      PROVE  /\ InTime(s) => InTime(u)
             /\ NotOvercounted(s) => NotOvercounted(u)
             /\ SleepInOrder(s) => SleepInOrder(u)
  BY <1>2, <1>6 DEF InTime, NotOvercounted, SleepInOrder
<1>7. ASSUME u.sleepCounter = r.sleepCounter,
             \E m \in Nat : \E novelties \in SUBSET (1..m) :
               \E run \in LabelRuns(r.nextLabel, m) :
               \E labels \in Labellings(r.model, m, novelties, run) :
                 /\ Appended(r, u, m, labels, novelties)
                 /\ u.nextLabel = run[Cardinality(novelties)]
      PROVE  /\ InTime(s) => InTime(u)
             /\ NotOvercounted(s) => NotOvercounted(u)
             /\ SleepInOrder(s) => SleepInOrder(u)
  <2>1. PICK m \in Nat : \E novelties, labels : Appended(r, u, m, labels, novelties)
    BY <1>7
  <2>2. PICK novelties, labels : Appended(r, u, m, labels, novelties)
    BY <2>1
  <2>3. u.currId = r.currId /\ u \in MinasState
    BY <1>1, <1>2 DEF SameBuffer, u
  <2>4. /\ InTime(r) => InTime(u)
        /\ NotOvercounted(r) => NotOvercounted(u)
        /\ SleepInOrder(r) => SleepInOrder(u)
    BY <1>2, <1>7, <2>2, <2>3, AppendedInOrder
  <2> QED
    BY <1>4, <1>5, <2>4
<1> QED
  BY <1>2, <1>6, <1>7

\* A line's cluster is awake unless the program starts it asleep.
LEMMA AddClusterOrder ==
  ASSUME NEW s \in MinasState, NEW c \in Cluster, c.latest <= s.currId
  PROVE  LET t == AddCluster(s, c)
         IN /\ InTime(s) => InTime(t)
            /\ NotOvercounted(s) => NotOvercounted(t)
            /\ SleepInOrder(s) /\ c.isSleep = FALSE => SleepInOrder(t)
<1> DEFINE t == AddCluster(s, c)
           L == Len(s.model)
           old == s.model
           new == t.model
<1>1. s.model \in Seq(Cluster) /\ L \in Nat
  BY DEF MinasState
<1>2. new = Append(old, c) /\ t.currId = s.currId /\ t.sleepCounter = s.sleepCounter
  BY DEF AddCluster, MinasState
<1>3. t \in MinasState
  BY AddClusterType
<1>4. /\ Asleep(old) = {j \in 1..L : old[j].isSleep}
      /\ Awake(old) = {j \in 1..L : ~ old[j].isSleep}
  BY AsleepFinite
<1>5. /\ Asleep(new) = {j \in 1..Len(new) : new[j].isSleep}
      /\ Awake(new) = {j \in 1..Len(new) : ~ new[j].isSleep}
  BY <1>3, AsleepFinite
<1>6. IsFiniteSet(Asleep(new)) /\ Cardinality(Asleep(new)) \in Nat
  BY <1>3, AsleepFinite
<1>7. /\ Len(new) = L + 1 /\ new[L + 1] = c
      /\ \A i \in 1..L : new[i] = old[i]
  BY <1>1, <1>2
<1>8. s.sleepCounter \in Nat /\ Cardinality(Asleep(old)) \in Nat
  BY AsleepFinite DEF MinasState
<1> HIDE DEF t, L, old, new
<1>9. 1..L \subseteq 1..(L + 1) /\ L + 1 \in 1..(L + 1)
      /\ \A i \in 1..(L + 1) : i \in 1..L \/ i = L + 1
  BY <1>1
<1>10. Asleep(old) \subseteq Asleep(new) /\ Awake(old) \subseteq Awake(new)
  BY <1>4, <1>5, <1>7, <1>9
<1>11. InTime(s) => InTime(t)
  <2> SUFFICES ASSUME \A i \in 1..L : old[i].latest <= s.currId,
                      NEW i \in 1..(L + 1)
               PROVE  new[i].latest <= s.currId
    BY <1>2, <1>7 DEF InTime, L, old, new
  <2> QED
    BY <1>7, <1>9
<1>12. NotOvercounted(s) => NotOvercounted(t)
  <2>1. Cardinality(Asleep(old)) <= Cardinality(Asleep(new))
    BY <1>6, <1>10, FS_Subset
  <2> QED
    BY <1>2, <1>6, <1>8, <2>1 DEF NotOvercounted, old, new
<1>13. ASSUME SleepInOrder(s), c.isSleep = FALSE
       PROVE  SleepInOrder(t)
  <2>1. /\ s.sleepCounter = Cardinality(Asleep(old))
        /\ \A i \in Asleep(old) : s.currId - old[i].latest > ThresholdForgetting
    BY <1>13 DEF SleepInOrder, old
  <2>2. Asleep(new) = Asleep(old)
    BY <1>4, <1>5, <1>7, <1>9, <1>13
  <2>3. \A i \in Asleep(new) : new[i] = old[i]
    BY <1>4, <1>7, <2>2
  <2>4. L + 1 \in Awake(new)
    BY <1>5, <1>7, <1>9, <1>13
  <2> QED
    BY <1>2, <2>1, <2>2, <2>3, <2>4 DEF SleepInOrder, new
<1> QED
  BY <1>11, <1>12, <1>13 DEF t

SleepInv ==
  /\ st.currId <= st.nextId
  /\ InTime(st)
  /\ NotOvercounted(st)
  /\ garbage = FALSE => SleepInOrder(st)

LEMMA HandleExampleSleep ==
  ASSUME Inv, SleepInv, NEW next \in {"reading", "eof"}, HandleExample(next),
         garbage' = garbage
  PROVE  SleepInv'
<1> DEFINE id == st.nextId
           s == [st EXCEPT !.currId = id, !.nextId = id + 1]
<1>1. st \in MinasState /\ id \in Nat /\ st.currId \in Nat /\ st.currId <= id
  BY DEF Inv, TypeOK, MinasState, SleepInv
<1>2. /\ st' \in MinasState /\ st'.nextId = id + 1
  BY HandleExampleFacts
<1> HIDE DEF id
<1>3. /\ s \in MinasState /\ s.model = st.model /\ s.currId = id
      /\ s.sleepCounter = st.sleepCounter /\ s.nextId = id + 1
  <2>1. id + 1 \in Nat
    BY <1>1
  <2> QED
    BY <1>1, <2>1 DEF MinasState
<1> HIDE DEF s
<1>4. /\ InTime(s) /\ NotOvercounted(s)
      /\ garbage = FALSE => SleepInOrder(s)
  <2>1. \A i \in 1..Len(st.model) : st.model[i].latest \in Nat
    <3> TAKE i \in 1..Len(st.model)
    <3>1. st.model[i] \in Cluster
      BY <1>1 DEF MinasState
    <3> QED
      BY <3>1 DEF Cluster
  <2>2. Asleep(st.model) \subseteq 1..Len(st.model)
    BY <1>1, AsleepFinite
  <2>3. InTime(s)
    BY <1>1, <1>3, <2>1 DEF SleepInv, InTime
  <2>4. NotOvercounted(s)
    BY <1>3 DEF SleepInv, NotOvercounted
  <2>5. garbage = FALSE => SleepInOrder(s)
    BY <1>1, <1>3, <2>1, <2>2, ParamsAssumption DEF SleepInv, SleepInOrder
  <2> QED
    BY <2>3, <2>4, <2>5
<1>5. CASE Len(st.model) < K
  <2>1. st' = s
    BY <1>5 DEF HandleExample, s, id
  <2> QED
    BY <1>1, <1>3, <1>4, <2>1 DEF SleepInv
<1>6. CASE ~ (Len(st.model) < K)
  <2>1. PICK match \in Identify(s, id) :
          \/ st' = HandleSleep(match.state)
          \/ \E h \in HandleUnknown(HandleSleep(match.state), id) : st' = h.state
    BY <1>6 DEF HandleExample, s, id
  <2> DEFINE t == HandleSleep(match.state)
  <2>2. /\ match.state \in MinasState /\ match.state.currId = id
        /\ InTime(match.state) /\ NotOvercounted(match.state)
        /\ garbage = FALSE => SleepInOrder(match.state)
    BY <1>1, <1>3, <1>4, IdentifyType, IdentifyInOrder
  <2>3. /\ t \in MinasState /\ t.currId = id
        /\ InTime(t) /\ NotOvercounted(t)
        /\ garbage = FALSE => SleepInOrder(t)
    BY <2>2, HandleSleepType, HandleSleepInOrder DEF SameBuffer
  <2> HIDE DEF t
  <2>4. /\ st'.currId = id
        /\ InTime(st') /\ NotOvercounted(st')
        /\ garbage = FALSE => SleepInOrder(st')
    <3>1. CASE st' = t
      BY <2>3, <3>1
    <3>2. ASSUME NEW h \in HandleUnknown(t, id), st' = h.state
          PROVE  /\ st'.currId = id
                 /\ InTime(st') /\ NotOvercounted(st')
                 /\ garbage = FALSE => SleepInOrder(st')
      BY <1>1, <1>2, <2>3, <3>2, HandleUnknownInOrder
    <3> QED
      BY <2>1, <3>1, <3>2 DEF t
  <2> QED
    BY <1>1, <1>2, <2>4 DEF SleepInv
<1> QED
  BY <1>5, <1>6

LEMMA SleepInvariance == Spec => []SleepInv
<1>1. Init => SleepInv
  <2> SUFFICES ASSUME Init PROVE SleepInv
    OBVIOUS
  <2>1. /\ st = EmptyState /\ st.model = <<>> /\ Len(st.model) = 0
        /\ st.currId = 0 /\ st.nextId = 0 /\ st.sleepCounter = 0
    BY DEF Init, EmptyState
  <2>2. Asleep(st.model) = {}
    BY <2>1 DEF Asleep
  <2>3. Cardinality(Asleep(st.model)) = 0
    BY <2>2, FS_EmptySet
  <2> QED
    BY <2>1, <2>2, <2>3 DEF SleepInv, InTime, NotOvercounted, SleepInOrder
<1>2. ASSUME Inv, SleepInv, [Next]_vars
      PROVE  SleepInv'
  <2>0. /\ st \in MinasState /\ st.currId \in Nat /\ st.nextId \in Nat
        /\ st.currId <= st.nextId
        /\ InTime(st) /\ NotOvercounted(st)
        /\ garbage = FALSE => SleepInOrder(st)
    BY <1>2 DEF Inv, TypeOK, SleepInv, MinasState
  <2>1. ASSUME NEW id \in 0..Len(st.model), NEW label \in LineLabels,
               ClusterLine(id, label)
        PROVE  SleepInv'
    <3> DEFINE c == [id |-> id, label |-> label, latest |-> UInt(st.currId),
                     isSleep |-> garbage, novel |-> FALSE,
                     touched |-> TouchedAt(st.currId)]
    <3>1. /\ UInt(st.currId) \in Nat /\ UInt(st.currId) <= st.currId
          /\ TouchedAt(st.currId) \in 0..Tracked
          /\ garbage \in BOOLEAN
      BY <1>2, <2>0, UIntBound, TouchedFacts, InputAssumption DEF Inv, TypeOK
    <3>2. id \in Nat /\ label \in Nat
      BY <2>0, InputAssumption DEF MinasState
    <3>3. /\ c \in Cluster /\ c.latest <= st.currId
          /\ garbage = FALSE => c.isSleep = FALSE
      BY <3>1, <3>2 DEF Cluster
    <3>4. (st' = AddCluster(st, c) \/ st' = st) /\ garbage' = garbage
      BY <2>1 DEF ClusterLine
    <3> HIDE DEF c
    <3>5. AddCluster(st, c).currId = st.currId /\ AddCluster(st, c).nextId = st.nextId
      BY <2>0 DEF AddCluster, MinasState
    <3>6. CASE st' = AddCluster(st, c)
      <4>1. /\ InTime(st') /\ NotOvercounted(st')
            /\ garbage = FALSE => SleepInOrder(st')
        BY <2>0, <3>3, <3>6, AddClusterOrder
      <4> QED
        BY <2>0, <3>4, <3>5, <3>6, <4>1 DEF SleepInv
    <3>7. CASE st' = st
      BY <2>0, <3>4, <3>7 DEF SleepInv
    <3> QED
      BY <3>4, <3>6, <3>7
  <2>2. ASSUME NEW next \in {"reading", "eof"}, HandleExample(next),
               garbage' = garbage
        PROVE  SleepInv'
    BY <1>2, <2>2, HandleExampleSleep
  <2>3. CASE ExampleLine
    BY <2>2, <2>3 DEF ExampleLine
  <2>4. CASE StaleLine
    BY <2>0, <2>2, <2>4 DEF StaleLine, SleepInv
  <2>5. CASE Finish
    <3>1. st' = RestoreSleep(st) /\ garbage' = garbage
      BY <2>5 DEF Finish
    <3>2. /\ InTime(st') /\ NotOvercounted(st')
          /\ garbage = FALSE => SleepInOrder(st')
      BY <2>0, <3>1, RestoreInOrder
    <3>3. st'.currId = st.currId /\ st'.nextId = st.nextId
      BY <2>0, <3>1, RestoreSleepType DEF SameBuffer
    <3> QED
      BY <2>0, <3>1, <3>2, <3>3 DEF SleepInv
  <2>6. CASE UNCHANGED vars
    BY <2>0, <2>6 DEF vars, SleepInv
  <2> QED
    BY <1>2, <2>1, <2>3, <2>4, <2>5, <2>6 DEF Next
<1> QED
  BY <1>1, <1>2, Invariance, PTL DEF Spec

\* sleepCounter, on which restoreSleep relies, counts the clusters asleep; with
\* clusters asleep from their line on it never counts too many.
THEOREM SleepersAreCounted == Spec => []SleepCounterMatches
<1>1. Inv /\ SleepInv => SleepCounterMatches
  <2> SUFFICES ASSUME Inv, SleepInv PROVE SleepCounterMatches
    OBVIOUS
  <2>1. garbage \in BOOLEAN
    BY InputAssumption DEF Inv, TypeOK
  <2> QED
    BY <2>1 DEF SleepInv, NotOvercounted, SleepInOrder, SleepCounterMatches
<1> QED
  BY <1>1, Invariance, SleepInvariance, PTL

\* minasHandleSleep never puts the whole model to sleep, wherever it stops.
THEOREM NeverAllAsleep == Spec => []SomeClusterAwake
<1>1. Inv /\ SleepInv => SomeClusterAwake
  <2> SUFFICES ASSUME Inv, SleepInv PROVE SomeClusterAwake
    OBVIOUS
  <2>1. garbage \in BOOLEAN
    BY InputAssumption DEF Inv, TypeOK
  <2> QED
    BY <2>1 DEF SleepInv, SleepInOrder, SomeClusterAwake
<1> QED
  BY <1>1, Invariance, SleepInvariance, PTL

-----------------------------------------------------------------------------
\* latest_match_id keeps the number of the example a cluster was last compared at,
\* as long as that number fits.
Stamped(c) == c.touched < Tracked => c.latest = c.touched
StampsKept(s) == \A i \in 1..Len(s.model) : Stamped(s.model[i])

\* A cluster stamped now, and one of a detection, which has no stamp yet.
LEMMA StampedNow ==
  ASSUME NEW n \in Nat, NEW c, c.latest = UInt(n), c.touched = TouchedAt(n)
  PROVE  Stamped(c)
BY TouchedFacts DEF Stamped

LEMMA StampedBorn ==
  ASSUME NEW c, c.touched = Tracked
  PROVE  Stamped(c)
BY ParamsAssumption DEF Stamped

LEMMA RestoreStamps ==
  ASSUME NEW s \in MinasState, StampsKept(s)
  PROVE  StampsKept(RestoreSleep(s))
<1> DEFINE r == RestoreSleep(s)
<1>1. Len(r.model) = Len(s.model) /\ s.currId \in Nat
  BY RestoreSleepType DEF SameBuffer, MinasState
<1>2. /\ s.sleepCounter = 0 => r = s
      /\ s.sleepCounter # 0 =>
           \A i \in 1..Len(s.model) : /\ r.model[i].latest = UInt(s.currId)
                                      /\ r.model[i].touched = TouchedAt(s.currId)
  BY RestoreSleepModel
<1> HIDE DEF r
<1>3. CASE s.sleepCounter = 0
  BY <1>2, <1>3 DEF r
<1>4. CASE s.sleepCounter # 0
  <2>1. \A i \in 1..Len(s.model) : Stamped(r.model[i])
    BY <1>1, <1>2, <1>4, StampedNow
  <2> QED
    BY <1>1, <2>1 DEF StampsKept, r
<1> QED
  BY <1>3, <1>4

LEMMA AnswerStamps ==
  ASSUME NEW s \in MinasState, StampsKept(s), NEW i \in DOMAIN s.model,
         NEW id \in Nat, NEW isMatch \in BOOLEAN
  PROVE  StampsKept(Answer(s, i, id, isMatch).state)
<1> DEFINE t == Answer(s, i, id, isMatch).state
<1>1. Len(t.model) = Len(s.model)
  BY AnswerType DEF SameBuffer
<1>2. /\ t.model[i].latest = UInt(id) /\ t.model[i].touched = TouchedAt(id)
      /\ \A j \in 1..Len(s.model) : j # i => t.model[j] = s.model[j]
  BY AnswerModel
<1> HIDE DEF t
<1>3. Stamped(t.model[i])
  BY <1>2, StampedNow
<1> QED
  BY <1>1, <1>2, <1>3 DEF StampsKept, t

LEMMA IdentifyStamps ==
  ASSUME NEW s \in MinasState, StampsKept(s), NEW id \in Nat,
         NEW match \in Identify(s, id)
  PROVE  StampsKept(match.state)
<1> DEFINE r == RestoreSleep(s)
<1>1. r \in MinasState /\ DOMAIN r.model = DOMAIN s.model /\ StampsKept(r)
  BY RestoreSleepType, RestoreStamps DEF SameBuffer, MinasState
<1>2. NearestAwake(s.model) \ {0} \subseteq DOMAIN s.model
  BY DEF NearestAwake, Awake
<1>3. \/ \E i \in DOMAIN s.model, isMatch \in BOOLEAN : match = Answer(s, i, id, isMatch)
      \/ \E i \in DOMAIN r.model, isMatch \in BOOLEAN : match = Answer(r, i, id, isMatch)
  BY <1>1, <1>2 DEF Identify
<1> HIDE DEF r
<1> QED
  BY <1>1, <1>3, AnswerStamps

LEMMA HandleSleepStamps ==
  ASSUME NEW s \in MinasState, StampsKept(s)
  PROVE  StampsKept(HandleSleep(s))
<1> DEFINE t == HandleSleep(s)
<1>1. Len(t.model) = Len(s.model)
  BY HandleSleepType DEF SameBuffer
<1>2. \/ t = s
      \/ \A i \in 1..Len(s.model) : /\ t.model[i].latest = s.model[i].latest
                                    /\ t.model[i].touched = s.model[i].touched
  BY HandleSleepModel
<1> HIDE DEF t
<1> QED
  BY <1>1, <1>2 DEF StampsKept, Stamped, t

LEMMA AppendedStamps ==
  ASSUME NEW s \in MinasState, StampsKept(s), NEW t, NEW m \in Nat, NEW labels,
         NEW novelties, Appended(s, t, m, labels, novelties)
  PROVE  StampsKept(t)
<1>1. Len(s.model) \in Nat /\ Len(t.model) = Len(s.model) + m
  BY DEF Appended, MinasState
<1>2. /\ \A i \in 1..Len(s.model) : t.model[i] = s.model[i]
      /\ \A k \in 1..m : t.model[Len(s.model) + k].touched = Tracked
  BY DEF Appended
<1>3. PICK L \in Nat : L = Len(s.model)
  BY <1>1
<1>4. ASSUME NEW i \in 1..(L + m)
      PROVE  Stamped(t.model[i])
  <2>1. CASE i \in 1..L
    BY <1>2, <1>3, <2>1 DEF StampsKept
  <2>2. CASE i \notin 1..L
    <3>1. i - L \in 1..m /\ i = L + (i - L)
      BY <2>2
    <3>2. t.model[i].touched = Tracked
      BY <1>2, <1>3, <3>1
    <3> QED
      BY <3>2, StampedBorn
  <2> QED
    BY <2>1, <2>2
<1> QED
  BY <1>1, <1>3, <1>4 DEF StampsKept

LEMMA HandleUnknownStamps ==
  ASSUME NEW s \in MinasState, StampsKept(s), NEW id \in Nat,
         NEW h \in HandleUnknown(s, id), h.state \in MinasState
  PROVE  StampsKept(h.state)
<1> DEFINE t == [s EXCEPT !.currId = id, !.unknowns = @ \cup {id}]
           r == RestoreSleep(t)
           u == h.state
<1>1. /\ t \in MinasState /\ r \in MinasState
      /\ \/ u.model = s.model
         \/ \E m \in Nat : \E novelties \in SUBSET (1..m) :
            \E run \in LabelRuns(r.nextLabel, m) :
            \E labels \in Labellings(r.model, m, novelties, run) :
              Appended(r, u, m, labels, novelties)
  BY HandleUnknownModel
<1>2. t.model = s.model
  BY DEF MinasState
<1> HIDE DEF t
<1>3. StampsKept(t)
  BY <1>2 DEF StampsKept
<1>4. StampsKept(r)
  BY <1>1, <1>3, RestoreStamps
<1> HIDE DEF r, u
<1>5. CASE u.model = s.model
  BY <1>5 DEF StampsKept, u
<1>6. CASE \E m \in Nat : \E novelties, labels : Appended(r, u, m, labels, novelties)
  BY <1>1, <1>4, <1>6, AppendedStamps DEF u
<1> QED
  BY <1>1, <1>5, <1>6

LEMMA AddClusterStamps ==
  ASSUME NEW s \in MinasState, StampsKept(s), NEW c \in Cluster, Stamped(c)
  PROVE  StampsKept(AddCluster(s, c))
<1>1. s.model \in Seq(Cluster) /\ AddCluster(s, c).model = Append(s.model, c)
  BY DEF AddCluster, MinasState
<1> QED
  BY <1>1 DEF StampsKept

LEMMA StampsInvariance == Spec => []StampsKept(st)
<1>1. Init => StampsKept(st)
  BY DEF Init, EmptyState, StampsKept
<1>2. ASSUME Inv, StampsKept(st), [Next]_vars
      PROVE  StampsKept(st)'
  <2>0. st \in MinasState /\ st.currId \in Nat /\ st.nextId \in Nat
    BY <1>2 DEF Inv, TypeOK, MinasState
  <2>1. ASSUME NEW id \in 0..Len(st.model), NEW label \in LineLabels,
               ClusterLine(id, label)
        PROVE  StampsKept(st')
    <3> DEFINE c == [id |-> id, label |-> label, latest |-> UInt(st.currId),
                     isSleep |-> garbage, novel |-> FALSE,
                     touched |-> TouchedAt(st.currId)]
    <3>1. /\ UInt(st.currId) \in Nat /\ TouchedAt(st.currId) \in 0..Tracked
          /\ garbage \in BOOLEAN /\ id \in Nat /\ label \in Nat
      BY <1>2, <2>0, UIntType, TouchedFacts, InputAssumption DEF Inv, TypeOK, MinasState
    <3>2. c \in Cluster /\ c.latest = UInt(st.currId) /\ c.touched = TouchedAt(st.currId)
      BY <3>1 DEF Cluster
    <3>3. st' = AddCluster(st, c) \/ st' = st
      BY <2>1 DEF ClusterLine
    <3> HIDE DEF c
    <3> QED
      BY <1>2, <2>0, <3>2, <3>3, StampedNow, AddClusterStamps
  <2>2. ASSUME NEW next \in {"reading", "eof"}, HandleExample(next)
        PROVE  StampsKept(st')
    <3> DEFINE id == st.nextId
               s == [st EXCEPT !.currId = id, !.nextId = id + 1]
    <3>1. st' \in MinasState
      BY <1>2, <2>2, HandleExampleFacts
    <3>2. id \in Nat /\ id + 1 \in Nat
      BY <2>0
    <3> HIDE DEF id
    <3>3. s \in MinasState /\ s.model = st.model
      BY <2>0, <3>2 DEF MinasState
    <3>4. \/ st' = s
          \/ \E match \in Identify(s, id) :
               \/ st' = HandleSleep(match.state)
               \/ \E h \in HandleUnknown(HandleSleep(match.state), id) : st' = h.state
      BY <2>2 DEF HandleExample, s, id
    <3> HIDE DEF s
    <3>5. StampsKept(s)
      BY <1>2, <3>3 DEF StampsKept
    <3>6. ASSUME NEW match \in Identify(s, id)
          PROVE  /\ HandleSleep(match.state) \in MinasState
                 /\ StampsKept(HandleSleep(match.state))
      BY <3>2, <3>3, <3>5, IdentifyType, IdentifyStamps, HandleSleepType, HandleSleepStamps
    <3> QED
      BY <3>1, <3>2, <3>4, <3>5, <3>6, HandleUnknownStamps
  <2>3. CASE ExampleLine
    BY <2>2, <2>3 DEF ExampleLine
  <2>4. CASE StaleLine
    BY <1>2, <2>2, <2>4 DEF StaleLine
  <2>5. CASE Finish
    BY <1>2, <2>0, <2>5, RestoreStamps DEF Finish
  <2>6. CASE UNCHANGED vars
    BY <1>2, <2>6 DEF vars
  <2> QED
    BY <1>2, <2>1, <2>3, <2>4, <2>5, <2>6 DEF Next
<1> QED
  BY <1>1, <1>2, Invariance, PTL DEF Spec

\* A sleeping cluster was last compared, woken or read longer ago than the threshold,
\* as far as latest_match_id holds the number of that example, and unless it comes
\* from a detection and none has been near it since.
THEOREM OnlyStaleSleep == Spec => []SleepersAreStale
<1>1. Inv /\ SleepInv /\ StampsKept(st) => SleepersAreStale
  <2> SUFFICES ASSUME Inv, SleepInv, StampsKept(st), ~ garbage,
                      NEW i \in Asleep(st.model), st.model[i].touched < Tracked
               PROVE  st.currId - st.model[i].touched > ThresholdForgetting
    BY DEF SleepersAreStale
  <2>1. garbage = FALSE /\ st \in MinasState
    BY InputAssumption DEF Inv, TypeOK
  <2>2. st.currId - st.model[i].latest > ThresholdForgetting
    BY <2>1 DEF SleepInv, SleepInOrder
  <2>3. i \in 1..Len(st.model)
    BY <2>1, AsleepFinite
  <2>4. st.model[i].latest = st.model[i].touched
    BY <2>3 DEF StampsKept, Stamped
  <2> QED
    BY <2>2, <2>4
<1> QED
  BY <1>1, Invariance, SleepInvariance, StampsInvariance, PTL
=============================================================================
