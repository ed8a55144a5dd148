SPECIFICATION Spec
CONSTANTS
  Sessions = {s1}
  Nodes = {n1}
  CommitIds = {c1, c2}
  Remotes = {r1}
  None = None
  MaxPublication = 3
  PowerLossPossible = TRUE
  DirEntriesDurable = TRUE
SYMMETRY Symmetry
INVARIANTS SelectedRecorded AckedDurable
PROPERTIES ImplementsAtomicStore
