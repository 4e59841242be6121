\* Two clusters per k-means run, two members per cluster: trigger 4, limit 8.
\* Eight examples in any order: two novelty detections.
CONSTANTS
  K = 2
  MinEx = 2
  ThresholdForgetting = 50
  Reserved = {2, 3}
  Unk = 3
  UIntMod = 1
  Tracked = 0
  LineLabels = {0}
  StackSleep = {FALSE}
  StackIds = {0}
  MaxExamples = 8
  MaxLines = 2
SPECIFICATION Spec
INVARIANTS
  TypeOK
  DetectionFindsCluster
  RoomAfterHandling
PROPERTIES
  LeftoverBounded
CHECK_DEADLOCK FALSE
