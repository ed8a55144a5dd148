SPECIFICATION SpecPartitioned
CONSTANTS
  first = first
  second = second
  Letters = {a, b}
  Blanks = {sp, nl}
  Keys = {first, second}
  MaxLen = 3
  MaxEdits = 1
  MaxCommits = 1
  Missing = Missing
  None = None
SYMMETRY Symmetry
PROPERTIES CosmeticKeepsWords
CHECK_DEADLOCK FALSE
