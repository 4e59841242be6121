\* Three cells, so the ring takes two examples; two producers with two examples
\* each, two consumers and main with two end markers: either side has to wait.
CONSTANTS
  Size = 3
  Producers = {p1, p2}
  Consumers = {c1, c2}
  Main = main
  PerProducer = 2
SPECIFICATION Spec
INVARIANTS
  Inv
PROPERTIES
  IsFIFO
  Termination
