\* No failures: only the jobs' interleavings stand in the way.
SPECIFICATION FairSpec
CONSTANTS
  Nodes = {n1, n2}
  Limit = 2
  Faults = FALSE
  SyncRest = 2
  MaxChanges = 2
PROPERTIES
  RestIsKept
  ComesToRest
