\* Two runs of one step, to which the evaluator may add one; no WebSocket client.
CONSTANTS
  r1 = r1
  r2 = r2
  NoRun = NoRun
  Runs = {r1, r2}
  Plans <- OnePlain
  StepIds <- Ids
  MaxSteps = 2
  EmitYields = FALSE
  HasEvaluator = TRUE
SYMMETRY RunSymmetry
SPECIFICATION Spec
CHECK_DEADLOCK FALSE
INVARIANTS
  SingleExecutor
  WaitingIsAnswerable
PROPERTIES
  IsLease
