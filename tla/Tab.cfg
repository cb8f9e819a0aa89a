SPECIFICATION MCSpec
CONSTANTS
  ann = ann
  bob = bob
  q1 = q1
  None = None
  Users <- TwoUsers
  Reads <- OneRead
  MaxPairs = 3
  MaxPages = 2
  Retries = 2
  Nobody = Nobody
  Mishaps = {}
SYMMETRY Symmetry
INVARIANTS
  TypesOK NoHalfSignIn NothingOfOthers RefreshesAreSafe BoardIsCurrent
\* With the bounds used up and nothing under way, a behaviour comes to its stop.
CHECK_DEADLOCK FALSE
