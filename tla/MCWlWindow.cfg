SPECIFICATION FairSpec
CONSTANTS
  Programs <- MCPrograms
  Offers <- MCOffers
  Formats = 2
  MaxConfigures = 2
  MaxUnread = 0
  GROUPS = 2
  Gestures <- MCGestures
INVARIANTS
  TypeOK
  NeverRefused
  GivesUpForCause
  LineTellsGroup
PROPERTIES
  AnswersPings
  Ends
CHECK_DEADLOCK FALSE
