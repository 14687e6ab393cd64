SPECIFICATION FuzzSpec
CONSTANTS
  Sessions <- SomeSessions
  MAX_OBJECTS = 12
  ServerHalf = 1000
  MaxOffers = 1
  MaxBehind = 1
INVARIANTS
  OpeningLegal
  SameObjects
CHECK_DEADLOCK FALSE
