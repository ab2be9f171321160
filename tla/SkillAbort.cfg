\* One task; no WebSocket client.
CONSTANTS
  t1 = t1
  NoTask = NoTask
  Tasks = {t1}
  Skills <- SomeSkills
  LoopWindow = 1
  RecoveryLimit = 1
  RecoveryActions = 2
  NotifyYields = FALSE
SPECIFICATION FairSpec
CHECK_DEADLOCK FALSE
PROPERTIES
  AbortedTaskEnds
