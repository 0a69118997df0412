CONSTANTS
  Second = 3
  Cells <- SmallCells
  Messages <- SomeMessages
  LeftData <- SomeLeftData
SPECIFICATION FairSpec
INVARIANT TypeOK OnlyCursor LedFollows
PROPERTY LedBlinks CursorBlinks
