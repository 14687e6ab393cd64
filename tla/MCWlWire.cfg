SPECIFICATION FairSpec
CONSTANTS
  Total = 2
  Lengths = {2, 3}
  Header = 2
  Sizes = {2, 4}
  Room = 2
  INBUF = 4
  TRIES = 7
  DRAINS = 1
  MaxEvents = 2
INVARIANTS
  InStep
  ArrivesWhole
  SaysWhy
PROPERTIES
  EndsForCause
CHECK_DEADLOCK FALSE
