SPECIFICATION Spec
CONSTANTS
  PerFrame = 3
  Frames = 3
  PerTransfer = 3
  MaxAttempts = 3
  Styles = {"toggle"}
INVARIANT ReturnedIsComplete
