SPECIFICATION MCSpec
CONSTANTS
  r1 = r1
  r2 = r2
  r3 = r3
  r4 = r4
  none = none
  null = null
  Requests <- Four
  MaxTokens = 4
  Free = none
SYMMETRY Symmetry
INVARIANTS
  TypesOK ContentCatchesUp HistoryMatchesStage AtMostOnce SentAtMostOnce OneLiveToken
  EndedStaysEnded RunLeavesItsMark
PROPERTIES
  AdmissionRules
\* With the bounds used up and nothing under way, a behaviour comes to its stop.
CHECK_DEADLOCK FALSE
