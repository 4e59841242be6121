\* The parameters of OnlineND_unknowns.cfg; the shortest input with a newline at
\* its end shows the second answer.
CONSTANTS
  K = 2
  MinEx = 2
  ThresholdForgetting = 50
  Reserved = {2, 3}
  Unk = 3
  UIntMod = 1
  Tracked = 0
  LineLabels = {2}
  StackSleep = {FALSE}
  MaxExamples = 12
  MaxLines = 2
SPECIFICATION Spec
INVARIANT OneMatchPerExample
CHECK_DEADLOCK FALSE
