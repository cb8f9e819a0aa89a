SPECIFICATION MCSpec
CONSTANTS
  None = None
INVARIANTS
  TypesOK DashboardIsTrue
PROPERTIES
  OverlaysGiveBack SearchIsFaithful
\* With the bounds used up and nothing under way, a behaviour comes to its stop.
CHECK_DEADLOCK FALSE
