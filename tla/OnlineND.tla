------------------------------ MODULE OnlineND ------------------------------
(***************************************************************************)
(* The serial classifier with novelty detection, src/src/online-nd.c: a    *)
(* loop that reads a line of standard input and handles it, cluster lines  *)
(* ('C') into the model and example lines through identify,                *)
(* minasHandleSleep and minasHandleUnknown.                                *)
(*                                                                         *)
(* Input.  Cluster lines carry the ids 0, 1, 2, ... in order, as offline.c *)
(* prints them; any of them may come again.  The stream ends with or       *)
(* without a newline.  '#' and 'U' lines leave no trace in the state.      *)
(***************************************************************************)
EXTENDS StreamInput

VARIABLES
  st,       \* minasState
  garbage,  \* cluster.isSleep, never assigned
  status,   \* where the program is, or the assertion it exited on
  last,     \* kind of the line in the buffer of getline
  read,     \* example lines read (bookkeeping)
  round,    \* the last novelty detection (bookkeeping)
  full      \* the buffer was once at its limit after all (bookkeeping)

vars == <<st, garbage, status, last, read, round, full>>

Statuses == {"reading", "eof", "done", "modelIncomplete", "noNewCluster"}

TypeOK ==
  /\ st \in MinasState
  /\ garbage \in StackSleep
  /\ status \in Statuses
  /\ last \in {"none", "C", "E"}
  /\ read \in Nat
  /\ round \in [number : Nat, present : SUBSET Nat, consumed : SUBSET Nat,
                collected : SUBSET Nat]
  /\ full \in BOOLEAN

Init ==
  /\ st = EmptyState
  /\ garbage \in StackSleep
  /\ status = "reading"
  /\ last = "none"
  /\ read = 0
  /\ round = [number |-> 0, present |-> {}, consumed |-> {}, collected |-> {}]
  /\ full = FALSE

\* getMfogLine got a line; without a newline at its end that sets feof.
LineRead(kind) ==
  /\ status = "reading"
  /\ last' = kind

\* A 'C' line; one whose id the model already has changes nothing.
ClusterLine(id, label) ==
  /\ LineRead("C")
  /\ status' \in {"reading", "eof"}
  /\ st' = IF Len(st.model) <= id
             THEN AddCluster(st, [id |-> id, label |-> label,
                                  latest |-> UInt(st.currId),
                                  isSleep |-> garbage, novel |-> FALSE,
                                  touched |-> TouchedAt(st.currId)])
             ELSE st
  /\ UNCHANGED <<garbage, read, round, full>>

\* The rest of the loop body for the example in "sample".
HandleExample(next) ==
  LET id == st.nextId
      s == [st EXCEPT !.currId = id, !.nextId = id + 1]
  IN IF Len(st.model) < K
       THEN st' = s /\ status' = "modelIncomplete" /\ UNCHANGED <<round, full>>
       ELSE \E match \in Identify(s, id) :
              LET t == HandleSleep(match.state)
              IN IF match.label # Unk
                   THEN st' = t /\ status' = next /\ UNCHANGED <<round, full>>
                   ELSE \E h \in HandleUnknown(t, id) :
                          /\ st' = h.state
                          /\ status' = IF h.failed THEN "noNewCluster" ELSE next
                          /\ round' = IF h.round
                                        THEN [number |-> round.number + 1,
                                              present |-> t.unknowns \cup {id},
                                              consumed |-> h.consumed,
                                              collected |-> h.collected]
                                        ELSE round
                          /\ full' = (full \/ h.full)

ExampleLine ==
  /\ LineRead("E")
  /\ read < MaxExamples
  /\ read' = read + 1
  /\ \E next \in {"reading", "eof"} : HandleExample(next)
  /\ UNCHANGED garbage

\* After a final newline feof is still unset: getline fails, leaves the last
\* line in its buffer, and the loop handles that line once more.
StaleLine ==
  /\ status = "reading"
  /\ last # "none"
  /\ IF last = "E" THEN HandleExample("eof")
     ELSE status' = "eof" /\ UNCHANGED <<st, round, full>>
  /\ UNCHANGED <<garbage, last, read>>

\* End of the loop: the sleepers are woken and the statistics printed.
Finish ==
  /\ status = "eof"
  /\ st' = RestoreSleep(st)
  /\ status' = "done"
  /\ UNCHANGED <<garbage, last, read, round, full>>

Next ==
  \/ \E id \in 0..Len(st.model), label \in LineLabels :
       id < MaxLines /\ ClusterLine(id, label)
  \/ ExampleLine
  \/ StaleLine
  \/ Finish

Spec == Init /\ [][Next]_vars

-----------------------------------------------------------------------------
\* Every novelty detection brings a cluster: the exit of assert(nearest !=
\* NULL) in minasHandleUnknown is never taken.  The trigger leaves no way to
\* spread the unknowns over K clusters with fewer than MinEx members each.
DetectionFindsCluster == status # "noNewCluster"

\* The assertion on unknownsSize that minasHandleUnknown has commented out
\* would hold: the garbage collection behind it is never needed.
RoomAfterHandling == ~ full

\* The limit of the buffer is never what sets off a novelty detection: the
\* trigger comes first and each detection leaves enough room.
TriggerBeforeLimit ==
  /\ Cardinality(st.unknowns) < UnknownsMax
  /\ Cardinality(round.present) < UnknownsMax

\* At most one unknown outlives a second novelty detection: the one that set
\* off the first (garbage collection in minasHandleUnknown).
OnlyTriggerOutlives ==
  [][round' # round =>
       st'.unknowns \cap round.present \subseteq {st.lastNDCheck}]_vars

\* The serial program keeps the promises of UnknownBuffer; above all garbage
\* collection gives up only unknowns of the previous novelty detection.
Buffer == INSTANCE UnknownBuffer WITH
            Ids <- 0..MaxExamples, Limit <- UnknownsMax,
            pending <- st.unknowns, seen <- round.present,
            explained <- round.consumed, givenUp <- round.collected
KeepsBufferPromises == Buffer!Spec

\* A novelty gets a label no earlier cluster has, and never a letter or '-'
\* (the label loop of noveltyDetection with nextLabel of addCluster).
NoveltyLabelsFresh ==
  \A i \in DOMAIN st.model : st.model[i].novel =>
    /\ st.model[i].label \notin Reserved
    /\ \A j \in 1..(i - 1) : st.model[j].label # st.model[i].label

\* sleepCounter counts the clusters asleep, on which restoreSleep relies; with
\* clusters asleep from their line on (garbage) it never counts too many.
SleepCounterMatches ==
  /\ st.sleepCounter <= Cardinality(Asleep(st.model))
  /\ ~ garbage => st.sleepCounter = Cardinality(Asleep(st.model))

\* minasHandleSleep never puts the whole model to sleep.
SomeClusterAwake ==
  ~ garbage /\ st.model # <<>> => Awake(st.model) # {}

\* A sleeping cluster was last compared, woken or read longer ago than the
\* threshold.  There are two exceptions, which may sleep at once: the number of
\* that example did not fit into latest_match_id (Tracked goes as far as that
\* does), or the cluster comes from a detection and none has been near it since.
SleepersAreStale ==
  ~ garbage =>
    \A i \in Asleep(st.model) :
      st.model[i].touched < Tracked =>
        st.currId - st.model[i].touched > ThresholdForgetting

\* The recorded evaluations expect one match per example of the input.
OneMatchPerExample == status = "done" => st.nextId = read
=============================================================================
