\* Two clusters to a model; five lines and two detections, in any order: the array
\* grows by addCluster up to three times, and a broadcast of one thread can come between
\* the two of a cluster of the other.
SPECIFICATION Spec
CONSTANTS
  K = 2
  MaxLines = 5
  MaxRounds = 2
  MaxAhead = 3
INVARIANT
  Inv
PROPERTY
  OverrunOnlyUneven
