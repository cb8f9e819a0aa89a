SPECIFICATION FairSpec
CONSTANTS
  r1 = r1
  r2 = r2
  r3 = r3
  none = none
  Requests <- Two
  MaxText = 2
  NoError = none
  NoRun = none
  Faults <- NoStrays
INVARIANT NewestRunWins
PROPERTIES ProcessingEnds RunSettlesJob

\* The system really stops: the job is deleted and every request is answered.
CHECK_DEADLOCK FALSE
