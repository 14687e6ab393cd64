SPECIFICATION Spec
CONSTANTS
  Names = {root, ada, bob}
  Root = root
  Rights = {power, become, identity}
  Unnamed = {identity}
  Become = become
  Open = {bob}
  Procs = {p1, p2}
  MayFail = TRUE
  MayEnd = TRUE
  MaxCommands = 3
  NoLine = NoLine
  Unread = Unread
  Nothing = Nothing
SYMMETRY Sessions
INVARIANTS TypeOK AsGiven EverGiven
PROPERTY SaysWhy
CHECK_DEADLOCK FALSE
