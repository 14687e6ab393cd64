SPECIFICATION FairSpec
CONSTANTS
  PAYLOAD = 3
  OtherLen = 5
  ROOM = 4
  TRIES = 2
  MaxTakes = 2
INVARIANTS
  AllOrNothing
  GetsSelection
PROPERTIES
  PasteEnds
CHECK_DEADLOCK FALSE
