\* Two runs of a plain and a guarded step; a WebSocket client may suspend any emit; no evaluator.
CONSTANTS
  r1 = r1
  r2 = r2
  NoRun = NoRun
  Runs = {r1, r2}
  Plans <- TwoMixed
  MaxSteps = 2
  EmitYields = TRUE
  HasEvaluator = FALSE
SYMMETRY RunSymmetry
SPECIFICATION Spec
CHECK_DEADLOCK FALSE
INVARIANTS
  NoUnapprovedTool
PROPERTIES
  OutcomeIsFinal
  StepOnce
