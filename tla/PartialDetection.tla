-------------------------- MODULE PartialDetection --------------------------
(***************************************************************************)
(* src/src/partials/detection.c: novelty detection as a program of its     *)
(* own, between a classifier and its model.  It reads clusters and unknown *)
(* examples, answers those its own, newer model knows, stores the others,  *)
(* and detects novelties over them.                                        *)
(*                                                                         *)
(* An unknown is an id and a pointer to its values.  Compressing the list  *)
(* copies both, so memory is modelled: what each pointer points to.        *)
(*                                                                         *)
(* After a final newline the loop handles the last line once more: feof is *)
(* not yet set, getline fails and leaves that line in its buffer.  A last  *)
(* cluster is in the model by then; a last unknown may be stored twice.    *)
(***************************************************************************)
EXTENDS Integers, FiniteSets, FiniteSetsExt

CONSTANTS
  K, MinEx,     \* kParam, minExamplesPerCluster
  MaxGap,       \* unknowns may skip so many ids
  MaxId,        \* bound on the ids
  MaxSize       \* bound on the model

NoveltyDetectionTrigger == MinEx * K
UnknownsMaxSize == 2 * NoveltyDetectionTrigger

DetectionAssumption ==
  /\ K \in Nat \ {0} /\ MinEx \in Nat \ {0}
  /\ NoveltyDetectionTrigger > 2
  /\ MaxGap \in Nat /\ MaxId \in Nat
  /\ MaxSize \in Nat /\ MaxSize > K

VARIABLES
  pc,           \* "read", "again" for the last line, or why the program stopped
  lineType,     \* of the line in the buffer of getline
  size,         \* model->size
  id,           \* id of the last example
  lastNDCheck,
  unknowns, unknownsSize,
  val,          \* memory: the example whose values a cell holds
  earlierCheck, \* history: lastNDCheck before the last detection
  late,         \* history: an unknown came before the whole model
  out           \* what the last line has printed

listVars == <<unknowns, unknownsSize, val>>
checkVars == <<lastNDCheck, earlierCheck>>
vars == <<pc, lineType, size, id, listVars, checkVars, late, out>>

Slots == 0..UnknownsMaxSize

TypeOK ==
  /\ pc \in {"read", "again", "end", "overflow", "assert"}
  /\ lineType \in {"none", "C", "U"}
  /\ size \in 0..MaxSize /\ id \in 0..MaxId
  /\ late \in BOOLEAN
  /\ lastNDCheck \in 0..id /\ earlierCheck \in 0..lastNDCheck
  /\ unknowns \in [Slots -> [id : 0..MaxId, val : Slots]]
  /\ unknownsSize \in 0..(UnknownsMaxSize + 1)
  /\ val \in [Slots -> 0..MaxId]
  /\ out \in {"nothing", "cluster", "answer", "clusters"}

Init ==
  /\ pc = "read" /\ lineType = "none"
  /\ size = 0 /\ id = 0 /\ lastNDCheck = 0 /\ earlierCheck = 0 /\ late = FALSE
  /\ unknowns = [i \in Slots |-> [id |-> 0, val |-> i]]
  /\ unknownsSize = 0
  /\ val = [c \in Slots |-> 0]
  /\ out = "nothing"

\* The list with x stored behind the others, through the pointer that is
\* there.
\* Slip: the values are not copied.
Named(x) == [unknowns EXCEPT ![unknownsSize].id = x]
NotWritten(x) == val
Written(x) == [val EXCEPT ![unknowns[unknownsSize].val] = x]

\* The list after the examples in drop have left its first n places: each is
\* copied, kept or not, to the place the kept ones before it leave, and what is
\* dropped is written over by the next.
\* Slip: holes are filled from the end.
FilledFromEnd(list, n, drop) ==
  [j \in Slots |->
     IF j \in drop THEN list[n - 1 - Cardinality({x \in drop : x < j})] ELSE list[j]]
Compressed(list, n, drop) ==
  LET place(ex) == ex - Cardinality({x \in drop : x < ex})
      copied(j) == {ex \in 0..(n - 1) : place(ex) = j}
  IN [j \in Slots |-> IF copied(j) = {} THEN list[j] ELSE list[Max(copied(j))]]

\* Slip: age does not matter.
NeverOld(list, n) == {}
Old(list, n) == {ex \in 0..(n - 1) : list[ex].id < lastNDCheck}

\* A full list loses what the last detection has seen.
\* Slips: it loses nothing; it loses the others.
CollectedNever(list, n) == {}
CollectedSince(list, n) ==
  IF n < UnknownsMaxSize THEN {} ELSE (0..(n - 1)) \ Old(list, n)
Collected(list, n) == IF n < UnknownsMaxSize THEN {} ELSE Old(list, n)

-----------------------------------------------------------------------------
\* A cluster line: clusters that are in the model are passed over, a new one is
\* added and printed.
ReadCluster ==
  /\ pc = "read"
  /\ lineType' = "C"
  /\ size < MaxSize
  /\ \E new \in BOOLEAN :
       /\ size' = IF new THEN size + 1 ELSE size
       /\ out' = IF new THEN "cluster" ELSE "nothing"
  /\ UNCHANGED <<pc, id, listVars, checkVars, late>>

\* The unknown to handle: one that is read, or the last one again.
NextId ==
  /\ \/ /\ pc = "read" /\ lineType' = "U"
        /\ id' \in (id + 1)..(id + 1 + MaxGap) /\ id' <= MaxId
     \/ pc = "again" /\ id' = id /\ UNCHANGED lineType
  /\ late' = (late \/ size < K)

\* The last line is handled once more, and no more.  Slip: it always is.
HandlesAgain == pc' = pc
GoOn == pc' = IF pc = "again" THEN "end" ELSE pc

\* An unknown that this model knows is answered and not stored; what identify
\* says of the last one again is left open.
Reclassify ==
  /\ NextId
  /\ size >= K
  /\ out' = "answer"
  /\ GoOn
  /\ UNCHANGED <<size, listVars, checkVars>>

\* Nothing is left to write to behind the last slot.
Overflow ==
  /\ NextId
  /\ unknownsSize \notin Slots
  /\ pc' = "overflow"
  /\ UNCHANGED <<size, listVars, checkVars, out>>

Due(n) == /\ n >= NoveltyDetectionTrigger
          /\ id' - lastNDCheck > NoveltyDetectionTrigger

\* The detection over the first n examples, when it is time.  At least one of the
\* K groups has MinEx members, which the new clusters consume; the model before
\* them may know others; what the detection before has seen leaves.
Detect(list, n) ==
  /\ \E explained \in SUBSET (0..(n - 1)), new \in 1..K :
       LET drop == explained \cup Old(list, n)
       IN /\ Cardinality(explained) >= MinEx
          /\ size + new <= MaxSize
          /\ size' = size + new
          /\ unknowns' = Compressed(list, n, drop)
          /\ unknownsSize' = n - Cardinality(drop)
  /\ out' = "clusters"

\* The time of the detection.  Slip: it is the time of the next one.
ChecksNext == /\ lastNDCheck' = id' + NoveltyDetectionTrigger
              /\ earlierCheck' = lastNDCheck
Checks == lastNDCheck' = id' /\ earlierCheck' = lastNDCheck

Keep(list, n) ==
  /\ unknowns' = list /\ unknownsSize' = n
  /\ out' = "nothing"
  /\ UNCHANGED <<size, checkVars>>

\* An unknown is stored; a full list is collected; with a whole model and when
\* it is time, novelties are detected.
Store ==
  /\ NextId
  /\ unknownsSize \in Slots
  /\ val' = Written(id')
  /\ LET full == unknownsSize + 1
         gone == Collected(Named(id'), full)
         list == Compressed(Named(id'), full, gone)
         n    == full - Cardinality(gone)
     IN \/ size < K /\ Keep(list, n) /\ GoOn
        \/ size >= K /\ n >= UnknownsMaxSize /\ Keep(list, n) /\ pc' = "assert"
        \/ /\ size >= K /\ n < UnknownsMaxSize /\ GoOn
           /\ IF Due(n) THEN Detect(list, n) /\ Checks
                        ELSE Keep(list, n)

\* Bounded in id, the stream ends, with or without a newline.
EndOfStream ==
  /\ pc = "read"
  /\ \/ pc' = "end"
     \/ lineType = "U" /\ pc' = "again"
  /\ UNCHANGED <<lineType, size, id, listVars, checkVars, late, out>>

Reading == pc \in {"read", "again"}
Ended == ~ Reading /\ UNCHANGED vars

Next == ReadCluster \/ Reclassify \/ Overflow \/ Store \/ EndOfStream \/ Ended

Spec == Init /\ [][Next]_vars

-----------------------------------------------------------------------------
\* The stored ids.
Ids == {unknowns[i].id : i \in 0..(unknownsSize - 1)}

\* The assertion of line 89 holds and no slot outside of the array is written:
\* a list at its limit always holds something the last detection has seen.  It
\* only breaks before the first detection, when the model came late.
UnknownsFit == pc \in {"assert", "overflow"} => late /\ lastNDCheck = 0

\* Leaving out examples keeps the others in the order they came in, and once
\* each while there is input.  The last unknown of a stream that ends in a newline
\* may then be stored again, and only once.
OrderKept ==
  /\ \A i, j \in 0..(unknownsSize - 1) : i < j =>
       \/ unknowns[i].id < unknowns[j].id
       \/ ~ Reading /\ unknowns[i].id = id /\ unknowns[j].id = id
  /\ \A i, j, k \in 0..(unknownsSize - 1) :
       i < j /\ j < k => unknowns[i].id < unknowns[k].id

\* An unknown takes part in two detections at most: after one, the list holds
\* nothing from before the one before it.
AtMostTwoRounds == \A x \in Ids : x >= earlierCheck

\* Compressing (comments of lines 75 and 105) copies pointers, so that a slot behind
\* the list shares its values with an example in it, and the next unknown is
\* written through it.  An example's values are its own or those of a later one,
\* and its own until the first detection.
ValuesOwnOrLater ==
  \A i \in 0..(unknownsSize - 1) :
    LET x == val[unknowns[i].val]
    IN x >= unknowns[i].id /\ (lastNDCheck = 0 => x = unknowns[i].id)

\* What leaves the list is explained or old: between two lines, only a detection
\* and a full list make it lose anything, and a full list nothing newer than the
\* last detection.
OnlyOldCollected == [][ lastNDCheck' = lastNDCheck =>
                          \A x \in Ids : x >= lastNDCheck => x \in Ids' ]_vars

\* The invariant of the list of unknowns.
Inv == TypeOK /\ UnknownsFit /\ OrderKept /\ AtMostTwoRounds /\ ValuesOwnOrLater
=============================================================================
