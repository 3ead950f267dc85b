\* Two devices created against the order of their ids, batches of two and one,
\* two plan subscriptions, any failure until failures stop.
SPECIFICATION FairSpec
CONSTANTS
  DeviceIds = {1, 2}
  CreatedAt <- CreatedAgainstOrder
  SubIds = {1, 2}
  GrantLimit = 2
  EnrollLimit = 1
INVARIANTS
  TypeOK
  FeeFlagBacked
  SubscriptionBacked
  Succession
  EnrolledInRecorded
PROPERTIES
  SettledForever
  BanHolds
  NoRedundantPurchase
  MovesForward
  HomeIsKept
  OrphansOnlyFromFaults
  Convergence
