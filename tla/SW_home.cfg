CONSTANTS
  a1 = a1
  Apps = {a1}
  SMP = FALSE
  PerSec = 2
  Wrap = 4
SPECIFICATION Spec
PROPERTY HomeStarts
CHECK_DEADLOCK FALSE
