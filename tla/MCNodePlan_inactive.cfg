\* Nothing fails.
SPECIFICATION Spec
CONSTANTS
  Nodes = {n1, n2}
  Limit = 2
  Faults = FALSE
  SyncRest = 0
  MaxChanges = 1
SYMMETRY NodeSymmetry
INVARIANTS
  InactiveAfterSync
