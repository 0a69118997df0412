CONSTANTS
  a1 = a1
  Apps = {a1}
  SMP = FALSE
  PerSec = 2
  Wrap = 4
SPECIFICATION FairSpec
PROPERTY HoldEndsSession
CHECK_DEADLOCK FALSE
