SPECIFICATION MCSpec
CONSTANTS
  r1 = r1
  r2 = r2
  None = None
  null = null
PROPERTIES
  RunEnds EveryRequestAnswered MessagesGoInTime StuckIsOffered RefusedMoveGoes
  ScoreAppears
\* With the bounds used up and nothing under way, a behaviour comes to its stop.
CHECK_DEADLOCK FALSE
