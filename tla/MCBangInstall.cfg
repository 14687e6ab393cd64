SPECIFICATION BangSpec
CONSTANTS
  Fixed <- MCFixed
  Modules <- MCModules
  Page = 2
  Disks = {"live", "disk"}
  Target = "disk"
  Tables <- MCTables
  Zero = "none"
  Drivers = {disk0, disk1}
  Faults = {"call", "dir", "id", "sync", "crash"}
  MaxRuns = 2
  MaxStraps = 2
SYMMETRY MCSymmetry
INVARIANTS BangTypeOK SaidStarts FindsRoot
CHECK_DEADLOCK FALSE
