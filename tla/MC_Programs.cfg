\* eet: three files, the last line of one without a newline, a pipe of two lines.
\* classifier: models of two and three clusters, three examples.
\* detection: groups of three, ids with gaps of one, three detections.
\* offline: all training sets of up to four lines.
CONSTANTS
  K = 2
  NExamples = 3
  Files <- MCFiles
  Input <- MCInput
  Unterminated <- MCUnterminated
  PipeSize = 2
  MaxClusters = 3
  DetectionK = 1
  MinEx = 3
  MaxGap = 1
  MaxId = 12
  MaxSize = 4
  Values = {0, 1, 3}
  Classes = {"N", "A"}
  TrainingSize = 4
  Unit = 12
  MaxIteration = 9
SPECIFICATION ProgramSpec
INVARIANTS
  EetInv
  ClassifierInv
  DetectionInv
  OfflineInv
PROPERTIES
  EndsUnlessDeaf
  OnlyOldCollected
  EndsByInput
