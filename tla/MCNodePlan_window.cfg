\* More servers than a run looks at.
SPECIFICATION FairSpec
CONSTANTS
  Nodes = {n1, n2}
  Limit = 1
  Faults = FALSE
  SyncRest = 2
  MaxChanges = 1
PROPERTIES
  WindowSettles
