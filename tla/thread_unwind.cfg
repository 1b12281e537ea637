SPECIFICATION Spec
CONSTANTS
  Errors = {e1}
  MaxFrames = 6
  MaxTemps = 1
  Ops <- UnwindOps
  Mode = "normal"
  BreakWithDefers = TRUE
INVARIANTS ErrorOnTop ReturnValueKept DefersReversed
CHECK_DEADLOCK FALSE
