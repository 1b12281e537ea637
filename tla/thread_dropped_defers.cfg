SPECIFICATION Spec
CONSTANTS
  Errors = {e1}
  MaxFrames = 6
  MaxTemps = 1
  Ops <- UnwindOps
  Mode = "normal"
  BreakWithDefers = FALSE
PROPERTIES DefersAllRun
CHECK_DEADLOCK FALSE
