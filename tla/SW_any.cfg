CONSTANTS
  a1 = a1
  Apps = {a1}
  SMP = TRUE
  PerSec = 2
  Wrap = 4
SPECIFICATION FairSpec
INVARIANT TypeOK RunningIsArmed ReleasedIsQuiet NoPanic FndShowsTime
PROPERTY PauseQuiesces HoldEndsSleep AbsSpec
CHECK_DEADLOCK FALSE
