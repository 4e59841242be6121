\* Two classifiers on one leaf, and no buffering: every call of MPI waits for
\* its counterpart.
CONSTANTS
  K = 2
  MinEx = 1
  ThresholdForgetting = 50
  Reserved = {2, 3}
  Unk = 3
  UIntMod = 1
  Tracked = 0
  LineLabels = {0}
  StackSleep = {FALSE}
  StackIds = {0, 7}
  MaxExamples = 4
  MaxLines = 2
  MinLines = 2
  NLeaves = 1
  NClassifiers = 2
  PacketSize = 2
  Eos = 2
  StackLabel = 0
  Eager = 0
SPECIFICATION Spec
INVARIANTS
  NothingLeft
PROPERTIES
  Termination
