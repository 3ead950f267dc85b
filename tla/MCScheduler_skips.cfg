\* As in the code's comment on RescheduleMode; a slow job and a queue for two.
SPECIFICATION FairSchedulerSpec
CONSTANTS
  limitModeMaxRunningJobs = 1
  QueueSize = 2
  MaxOccurrences = 8
PROPERTIES
  SkipsAtLimit
CHECK_DEADLOCK FALSE
