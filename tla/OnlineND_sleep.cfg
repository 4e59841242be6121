\* One cluster per k-means run, so that three clusters are enough to sleep; the
\* match stamps wrap at 5; the uninitialised isSleep takes both values.  A line
\* may follow a detection, and with the label of a novelty: 1 is a letter, the
\* novelties are labelled 0, 3, 4, ... and a line may carry 3.
CONSTANTS
  K = 1
  MinEx = 2
  ThresholdForgetting = 2
  Reserved = {1, 2}
  Unk = 2
  UIntMod = 5
  Tracked = 5
  LineLabels = {1, 3}
  StackSleep = {FALSE, TRUE}
  MaxExamples = 6
  MaxLines = 3
SPECIFICATION Spec
INVARIANTS
  NoveltyLabelsFresh
  SleepCounterMatches
  SomeClusterAwake
  SleepersAreStale
CHECK_DEADLOCK FALSE
