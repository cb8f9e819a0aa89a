SPECIFICATION Spec
CONSTANTS
  Sends = "job"
  MaxEdits = 1
  MaxPosts = 3
  Drops = TRUE
  None = None
INVARIANT DoneOnce
\* With the bounds on edits and requests used up, the page comes to a stop.
CHECK_DEADLOCK FALSE
