SPECIFICATION Spec
CONSTANTS
  Sessions = {s1}
  Stores = {x}
  Aliases = {p}
  Urls = {u, v}
  Inodes = {i1, i2, i3, i4}
  MaxRegistrations = 2
  MaxCommands = 4
  Empty = Empty
  Mixed = Mixed
  None = None
SYMMETRY Symmetry
INVARIANTS AcceptedWasApproved
CHECK_DEADLOCK FALSE
