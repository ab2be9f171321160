\* The web server's task runs beside the loop's task, as on the board.
CONSTANTS
  Wrap = 16
  Short = 2
  Long = 5
  Pulse = 1
SPECIFICATION Spec
CHECK_DEADLOCK FALSE
INVARIANTS
  PressIsTimed
