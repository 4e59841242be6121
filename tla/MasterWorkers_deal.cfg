\* Two workers, and room for two messages from one rank to another: five
\* examples keep a worker busy for good (two to come, one in hand, two matches
\* that rank 0 has not taken), so rank 0 may wait for ever at the sixth example
\* for a worker, at its marker, or in the barrier.
CONSTANTS
  NWorkers = 2
  FileExamples = 12
  Eager = 2
SPECIFICATION DealSpec
INVARIANTS
  DealInv
PROPERTIES
  EndsOrJams
CHECK_DEADLOCK FALSE
