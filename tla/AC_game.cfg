CONSTANTS
  Inputs <- SomeSizes
  Acts = 2
  Hour = 2
  Backlog = 2
SPECIFICATION FairSpec
INVARIANT TypeOK SameParity ClockIsTrue SolvedIsOver OnceOnly
PROPERTY AbsSpec ClockGoes
CHECK_DEADLOCK FALSE
