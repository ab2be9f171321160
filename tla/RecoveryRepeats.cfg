\* Two runs of two plain steps; the server may die or stop at any time.
CONSTANTS
  r1 = r1
  r2 = r2
  NoRun = NoRun
  Runs = {r1, r2}
  Plans <- PlainSteps
  MaxSteps = 2
  EmitYields = FALSE
  HasEvaluator = FALSE
SPECIFICATION RecoverySpec
CHECK_DEADLOCK FALSE
PROPERTIES
  DoneNotRepeated
