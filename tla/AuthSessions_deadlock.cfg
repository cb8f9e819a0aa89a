SPECIFICATION Spec
CONSTANTS
  r1 = r1
  r2 = r2
  r3 = r3
  r4 = r4
  r5 = r5
  Requests <- FiveRequests
  MaxTokens = 4
  Free = Free
\* When every request is answered there is nothing left to do.
CHECK_DEADLOCK FALSE
SYMMETRY Symmetry
INVARIANT NoDeadlock
