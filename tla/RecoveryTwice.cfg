\* Two runs of two steps, the second new or resumed; the server may die or stop at any time.
CONSTANTS
  r1 = r1
  r2 = r2
  NoRun = NoRun
  Runs = {r1, r2}
  Plans <- TwoSteps
  MaxSteps = 2
  EmitYields = FALSE
  HasEvaluator = TRUE
SYMMETRY RunSymmetry
SPECIFICATION RecoverySpec
CHECK_DEADLOCK FALSE
INVARIANTS
  NoZombieRun
  DoneWasRun
PROPERTIES
  RecordIsFinal
  SkipSurvives
