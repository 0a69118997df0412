CONSTANTS
  s1 = s1
  Switches = {s1}
  Vals = {0}
  InCap = 2
  OutCap = 2
  EvMax = 2
  Budget = 3
  Timely = TRUE
  LeftEvents <- CleanEvents
  LeftData <- CleanData
  DevicesOpen = TRUE
SPECIFICATION FairSpec
PROPERTY BackEnds
CHECK_DEADLOCK FALSE
