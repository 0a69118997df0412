CONSTANTS
  Cap = 2
  CntWrap = 3
  PntWrap = 300
  Hours = 2
  Minutes = 3
  Width = 2
  Height = 2
  Holes = 2
  Chords <- SomeChords
VIEW live
SPECIFICATION Spec
INVARIANT TypeOK SentIsCurrent ShowsState Fresh Layout BehindByMissed
PROPERTY AbsSpec KeepsDistance Odometer
