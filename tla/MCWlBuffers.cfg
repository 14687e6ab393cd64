SPECIFICATION FairSpec
CONSTANTS
  Sizes <- MCSizes
  First <- MCFirst
  BUFFERS = 2
  MaxResizes = 2
INVARIANTS
  TypeOK
  NeverPaintsHeld
  SizeFollows
PROPERTIES
  KeepsDrawing
CHECK_DEADLOCK FALSE
