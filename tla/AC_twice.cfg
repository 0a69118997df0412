CONSTANTS
  Inputs <- SmallSizes
  Acts = 2
  Hour = 4
  Backlog = 2
SPECIFICATION Spec
INVARIANT EverySecond
CHECK_DEADLOCK FALSE
