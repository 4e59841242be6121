\* Two clusters per k-means run and two members per cluster: the smallest
\* parameters with left-over unknowns.  Twelve examples reach two novelty
\* detections; a third cluster line may come between the examples before the
\* first.  The threshold exceeds the run, so no cluster sleeps and match stamps
\* do not matter: UIntMod = 1 folds them and Tracked = 0 their bookkeeping.
CONSTANTS
  K = 2
  MinEx = 2
  ThresholdForgetting = 50
  Reserved = {2, 3}
  Unk = 3
  UIntMod = 1
  Tracked = 0
  LineLabels = {0}
  StackSleep = {FALSE}
  MaxExamples = 12
  MaxLines = 3
SPECIFICATION Spec
INVARIANTS
  TypeOK
  DetectionFindsCluster
  RoomAfterHandling
  TriggerBeforeLimit
PROPERTIES
  OnlyTriggerOutlives
  KeepsBufferPromises
CHECK_DEADLOCK FALSE
