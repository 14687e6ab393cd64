SPECIFICATION FairCopySpec
CONSTANTS
  Sizes <- MCSizes
  Page = 3
  Wrap = 8
  MaxAt = 18
INVARIANTS
  CopyTypeOK
  CopiedWhole
PROPERTIES
  Ends
CHECK_DEADLOCK FALSE
