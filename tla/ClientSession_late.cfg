SPECIFICATION Spec
CONSTANTS
  ann = ann
  bob = bob
  q1 = q1
  Users <- TwoUsers
  Reads <- OneRead
  MaxPairs = 3
  MaxPages = 0
  Retries = 2
  Nobody = Nobody
  Mishaps = {"late"}
INVARIANT NoHalfSignIn
SYMMETRY Symmetry
CHECK_DEADLOCK FALSE
