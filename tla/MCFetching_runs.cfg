\* Lists of up to two pages, any of which fits a page or not; a queue for one
\* run, and occurrences enough to fill it.
SPECIFICATION FairFetching
CONSTANTS
  Items = {a, b, c}
  Limit = 1
  MaxLength = 2
  limitModeMaxRunningJobs = 1
  QueueSize = 1
  MaxOccurrences = 4
INVARIANTS
  CompleteIfAppended
  RunsExclude
  NoneLost
PROPERTIES
  AtomicSpec
  Terminates
  EveryRunHappens
