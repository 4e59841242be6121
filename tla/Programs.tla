------------------------------ MODULE Programs ------------------------------
(***************************************************************************)
(* The programs that work on their own: the pipe "eet | online", the       *)
(* classifier and the detection of src/src/partials, and offline.  They    *)
(* share no state and meet in files only, so that a behaviour of this      *)
(* module is a behaviour of one of them, on any of its inputs, while the   *)
(* others have not been started.                                           *)
(***************************************************************************)
EXTENDS Naturals, Sequences

CONSTANTS
  Files, Input, Unterminated, PipeSize,    \* of eet | online
  MaxClusters,                             \* of the classifier
  DetectionK, MinEx, MaxGap, MaxId, MaxSize,
  Values, Classes, Unit, MaxIteration, TrainingSize,  \* of offline
  K, NExamples                             \* of the others

VARIABLES
  program,
  at, reader, pipe, written, online, output,
  modelIs, nClusters, sent, closed, fetched, taken, eof, fds, line,
  classifierPc, classifierSize, classifierId, answers,
  detectionPc, lineType, detectionSize, detectionId, lastNDCheck, unknowns,
  unknownsSize, val, earlierCheck, late, printed,
  lines, set, offlinePc, l, centers, ls, global, iteration, model

eetVars == <<at, reader, pipe, written, online, output>>
classifierVars == <<modelIs, nClusters, sent, closed, fetched, taken, eof, fds, line,
                    classifierPc, classifierSize, classifierId, answers>>
detectionVars == <<detectionPc, lineType, detectionSize, detectionId, lastNDCheck,
                   unknowns, unknownsSize, val, earlierCheck, late, printed>>
offlineVars == <<lines, set, offlinePc, l, centers, ls, global, iteration, model>>
programVars == <<program, eetVars, classifierVars, detectionVars, offlineVars>>

Eet == INSTANCE MergedOnline
Classifier == INSTANCE PartialClassifier WITH
  written <- sent, pc <- classifierPc, size <- classifierSize, id <- classifierId,
  out <- answers
Detection == INSTANCE PartialDetection WITH
  K <- DetectionK, pc <- detectionPc, size <- detectionSize, id <- detectionId,
  out <- printed
Offline == INSTANCE Training WITH NExamples <- TrainingSize, pc <- offlinePc

ASSUME ProgramsAssumption ==
  /\ Eet!MergedAssumption /\ Classifier!ClassifierAssumption
  /\ Detection!DetectionAssumption /\ Offline!TrainingAssumption

\* The program that runs may have any of its inputs.
ProgramInit ==
  /\ program \in {"eet", "classifier", "detection", "offline"}
  /\ Eet!Init /\ Classifier!Init /\ Detection!Init /\ Offline!Init
  /\ program = "classifier" \/ (modelIs = "stdin" /\ nClusters = K)
  /\ program = "offline" \/ (Len(lines) = 1 /\ lines[1] = CHOOSE x \in Offline!Line : TRUE)

InEet == program = "eet" /\ UNCHANGED <<program, classifierVars, detectionVars, offlineVars>>
InClassifier == program = "classifier" /\ UNCHANGED <<program, eetVars, detectionVars, offlineVars>>
InDetection == program = "detection" /\ UNCHANGED <<program, eetVars, classifierVars, offlineVars>>
InOffline == program = "offline" /\ UNCHANGED <<program, eetVars, classifierVars, detectionVars>>

ProgramNext ==
  \/ InEet /\ Eet!Next
  \/ InClassifier /\ Classifier!Next
  \/ InDetection /\ Detection!Next
  \/ InOffline /\ Offline!Next

\* The fairness of those whose ends are in question, while they run.
ProgramFairness ==
  /\ WF_programVars(InClassifier /\ Classifier!Program)
  /\ \A s \in {"stdin", "model"} :
       WF_programVars(InClassifier /\ s \in Classifier!Sources /\ Classifier!Write(s))
  /\ WF_programVars(InOffline /\ Offline!Next)

ProgramSpec == ProgramInit /\ [][ProgramNext]_programVars /\ ProgramFairness

-----------------------------------------------------------------------------
\* eet | online answers in order and by a complete model, forgets no example, and
\* loses a line only where a file has no newline at its end.
EetInv == Eet!Inv

\* classifier answers in order, its model is a prefix of what it read, and it only
\* misreads the end of a model.
ClassifierInv == Classifier!Inv

\* It ends unless select() has left it deaf.
EndsUnlessDeaf == program = "classifier" => Classifier!EndsUnlessDeaf

\* detection keeps its list within its limits and in order, takes nothing for a
\* third detection, and gives no example the values of an earlier one.
DetectionInv == Detection!Inv

\* It collects only what is old.
OnlyOldCollected == Detection!OnlyOldCollected

\* The model of offline covers the training set and counts it.
OfflineInv == Offline!Inv

\* offline ends with a model exactly when every class is large enough, and k-means
\* settles.
EndsByInput == program = "offline" => Offline!EndsByInput
=============================================================================
