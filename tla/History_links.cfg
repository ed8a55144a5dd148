SPECIFICATION SpecWithRanges
CONSTANTS
  Paths = {p1}
  NoPath = NoPath
  MaxCommits = 6
  Verbs = {"commit", "link", "adapt", "reset", "combo", "gc", "unclean"}
CONSTRAINTS UncleanAfterLink FirstLinkFromFirst
INVARIANTS LinksBacked PendingEffective
PROPERTIES HealthStable
CHECK_DEADLOCK FALSE
