SPECIFICATION Spec
CONSTANTS
  NPackages = 3
  Name <- MCName
  Lines <- MCLines
  SetOf <- MCSetOf
  Asked <- MCAsked
  Files <- MCFiles
  Dirs <- MCDirs
  DB <- MCDB
  NameLen <- MCNameLen
  DirsMax = 7
  MaxRuns = 1
  Faults = {"names", "call", "load", "attr", "times", "sync"}
INVARIANTS
  ListsTellTrue
CHECK_DEADLOCK FALSE
