\* Nothing fails, nothing changes.
SPECIFICATION Spec
CONSTANTS
  Nodes = {n1, n2}
  Limit = 2
  Faults = FALSE
  SyncRest = 0
  MaxChanges = 0
SYMMETRY NodeSymmetry
PROPERTIES
  MarkedWereAdded
