CONSTANTS
  a1 = a1
  a2 = a2
  Apps = {a1}
  Args <- GoodArgs
SPECIFICATION Spec
INVARIANT AddedOnce
CHECK_DEADLOCK FALSE
