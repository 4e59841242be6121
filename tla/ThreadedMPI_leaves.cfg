\* Two leaves with one classifier each, packets of two examples, one message
\* buffered: packets overtake each other, the last one is shorter.
CONSTANTS
  K = 1
  MinEx = 1
  ThresholdForgetting = 50
  Reserved = {2, 3}
  Unk = 3
  UIntMod = 1
  Tracked = 0
  LineLabels = {0}
  StackSleep = {FALSE}
  StackIds = {0}
  MaxExamples = 4
  MaxLines = 2
  MinLines = 1
  NLeaves = 2
  NClassifiers = 1
  PacketSize = 2
  Eos = 2
  StackLabel = 0
  Eager = 1
SPECIFICATION Spec
INVARIANTS
  TypeOK
  ReplicaIsPrefix
  InOnePlace
PROPERTIES
  ImplementsUnorderedND
