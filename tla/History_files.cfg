SPECIFICATION Spec
CONSTANTS
  Paths = {p1, p2}
  NoPath = NoPath
  MaxCommits = 5
  Verbs = {"init", "commit", "verify", "begin", "end", "rename", "delete", "reset", "gc"}
SYMMETRY Symmetry
INVARIANTS TypeOK IndexSound RetainedComplete ResetRestoresSnapshot
CHECK_DEADLOCK FALSE
