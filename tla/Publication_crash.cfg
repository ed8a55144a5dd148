SPECIFICATION Spec
CONSTANTS
  Sessions = {s1, s2}
  Nodes = {n1}
  CommitIds = {c1, c2, c3}
  Remotes = {}
  None = None
  MaxPublication = 3
  PowerLossPossible = FALSE
  DirEntriesDurable = TRUE
SYMMETRY Symmetry
INVARIANTS TypeOK SelectedRecorded PublishedCoversSelected
PROPERTIES NoLostUpdate CallerSawIt
