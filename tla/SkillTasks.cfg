\* Two tasks, in requests or in the background; a WebSocket client may suspend any notification.
CONSTANTS
  t1 = t1
  t2 = t2
  NoTask = NoTask
  Tasks = {t1, t2}
  Skills <- SomeSkills
  LoopWindow = 1
  RecoveryLimit = 1
  RecoveryActions = 2
  NotifyYields = TRUE
SYMMETRY TaskSymmetry
SPECIFICATION Spec
CHECK_DEADLOCK FALSE
INVARIANTS
  TypeOK
  GuidedIsBounded
  TaskIsAlone
PROPERTIES
  CallsAreWanted
