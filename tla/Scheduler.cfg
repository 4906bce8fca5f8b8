SPECIFICATION SchedulerSpec
CONSTANTS
  DailyInterval = 3
  HeartbeatInterval = 2
  MaxCalls = 2
  MaxCrashes = 2
INVARIANTS
  RunningIsRun
PROPERTY
  DueIsRun
