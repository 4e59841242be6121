\* Two nodes, five packets of two samples, messages of two: a node may lap its
\* sender.
CONSTANTS
  Nodes = {1, 2}
  SIZE = 4
  THRESHOLD = 2
  Width = 1
  MaxUnknown = 10
  SAMPLES = 2
  MaxPackets = 5
  Eager = 1
SPECIFICATION SampledSpec
INVARIANTS
  Inv
PROPERTIES
  EndsWell
