CONSTANTS
  s1 = s1
  Switches = {s1}
  Vals = {0}
  InCap = 2
  OutCap = 2
  EvMax = 2
  Budget = 3
  Timely = FALSE
  LeftEvents <- DirtyEvents
  LeftData <- DirtyData
  DevicesOpen = FALSE
SPECIFICATION FairSpec
INVARIANT TypeOK InputInOrder DisplayInOrder ModeFollowsPresses
PROPERTY EndsTogether CatchesUp
CHECK_DEADLOCK FALSE
