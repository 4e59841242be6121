\* Two leaves and three slots for four examples; MPI buffers nothing, so that
\* every call waits for its counterpart.
CONSTANTS
  K = 1
  MinEx = 1
  NLeaves = 2
  NSlots = 3
  Answers = {"match", "unknown"}
  MaxLines = 1
  MaxClusters = 2
  MaxExamples = 4
  Eager = 0
SPECIFICATION Spec
INVARIANTS
  Inv
PROPERTIES
  ImplementsSlottedND
  Termination
\* The detector waits for ever when the end marker was erased.
CHECK_DEADLOCK FALSE
