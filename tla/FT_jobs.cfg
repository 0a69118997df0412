CONSTANTS
  a1 = a1
  a2 = a2
  Apps = {a1, a2}
  Args <- AnyArgs
SPECIFICATION FairSpec
INVARIANT TypeOK NoStray
PROPERTY AbsSpec JobEnds
CHECK_DEADLOCK FALSE
