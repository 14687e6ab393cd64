SPECIFICATION Spec
CONSTANTS
  NPackages = 3
  Name <- MCName
  Lines <- MCLines
  SetOf <- MCSetOf
  Asked <- MCAsked
  Files <- MCFiles
  Dirs <- MCDirs
  DB <- MCDB
  NameLen <- MCNameLen
  DirsMax = 7
  MaxRuns = 2
  Faults = {"call", "crash"}
INVARIANTS
  TypeOK
  SaidIsDone
  TimesRestored
  ModesKept
PROPERTIES
  KeepsPromise
CHECK_DEADLOCK FALSE
