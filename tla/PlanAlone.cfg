\* One run of every two-step plan, one added step, fair scheduling; no WebSocket client.
CONSTANTS
  r1 = r1
  NoRun = NoRun
  Runs = {r1}
  Plans <- TwoSteps
  MaxSteps = 3
  EmitYields = FALSE
  HasEvaluator = TRUE
SPECIFICATION FairSpec
CHECK_DEADLOCK FALSE
INVARIANTS
  TypeOK
  CompletedLeavesNothing
  StoreIsCurrent
  AbortHoldsTools
PROPERTIES
  PauseHoldsTools
  AbortEnds
  RunEnds
