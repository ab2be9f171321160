\* Three runs; a WebSocket client may suspend any emit.
CONSTANTS
  r1 = r1
  r2 = r2
  r3 = r3
  NoRun = NoRun
  Runs = {r1, r2, r3}
  Plans <- OneConfirm
  MaxSteps = 1
  EmitYields = TRUE
  HasEvaluator = FALSE
SYMMETRY RunSymmetry
SPECIFICATION Spec
CHECK_DEADLOCK FALSE
INVARIANTS
  NoUnapprovedTool
