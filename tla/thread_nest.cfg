SPECIFICATION Spec
CONSTANTS
  Errors = {e1}
  MaxFrames = 5
  MaxTemps = 1
  Ops <- NestOps
  Mode = "commandline"
  BreakWithDefers = FALSE
INVARIANTS TypeOK FramesMatch CurrentFrameRuns
PROPERTIES CallersKept TryAbsorbs
CHECK_DEADLOCK FALSE
