\* Two nodes, any interleaving of the jobs, any failure.
SPECIFICATION Spec
CONSTANTS
  Nodes = {n1, n2}
  Limit = 2
  Faults = TRUE
  SyncRest = 0
  MaxChanges = 1
SYMMETRY NodeSymmetry
VIEW SafetyView
INVARIANTS
  TypeOK
PROPERTIES
  BanHolds
  FlagDropsOnlyToStaleSync
  FlagRisesWithCause
