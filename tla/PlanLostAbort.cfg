\* One run; a WebSocket client may suspend any emit.
CONSTANTS
  r1 = r1
  NoRun = NoRun
  Runs = {r1}
  Plans <- OneConfirm
  MaxSteps = 1
  EmitYields = TRUE
  HasEvaluator = FALSE
SPECIFICATION FairSpec
CHECK_DEADLOCK FALSE
PROPERTIES
  AbortEnds
