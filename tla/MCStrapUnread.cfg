SPECIFICATION Spec
CONSTANTS
  NPackages = 3
  Name <- MCName
  Lines <- MCLines
  SetOf <- MCSetOf
  Asked <- MCAsked
  Files <- MCFiles
  Dirs <- MCDirs
  DB <- MCDB
  NameLen <- MCNameLen
  DirsMax = 100
  MaxRuns = 1
  Faults = {"load"}
INVARIANTS
  SaidIsDone
CHECK_DEADLOCK FALSE
