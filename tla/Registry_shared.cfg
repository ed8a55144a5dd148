SPECIFICATION Spec
CONSTANTS
  Sessions = {s1, s2}
  Stores = {x, y}
  Aliases = {p}
  Urls = {u}
  Inodes = {i1, i2, i3, i4}
  MaxRegistrations = 2
  MaxCommands = 4
  Empty = Empty
  Mixed = Mixed
  None = None
SYMMETRY Symmetry
INVARIANTS TypeOK AliasNamesOneStore MappingsRegistered AloneIsAtomic
CHECK_DEADLOCK FALSE
