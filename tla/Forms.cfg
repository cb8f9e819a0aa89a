SPECIFICATION MCSpec
CONSTANTS
  Sends = "application"
  MaxEdits = 2
  MaxPosts = 2
  Drops = TRUE
  None = None
INVARIANTS
  TypesOK SentSafely CardsAreHonest
PROPERTIES
  ListsKeepTheirPlace FormsAreHonest ClicksAreOfTheirRow PublishingIsTold
\* With the bounds used up and nothing under way, a behaviour comes to its stop.
CHECK_DEADLOCK FALSE
