SPECIFICATION Spec
CONSTANTS
  Emails = {"a", "b"}
  MaxEdits = 3
  MaxAttempts = 1
  None = None
INVARIANT TakenIsOfThisEmail
\* With the bounds on edits and attempts used up, the page comes to a stop.
CHECK_DEADLOCK FALSE
