SPECIFICATION Spec
CONSTANTS
  PerFrame = 3
  Frames = 4
  PerTransfer = 3
  MaxAttempts = 3
  Styles = {"eof", "trailer", "toggle"}
INVARIANTS
  TypeInv
  FramesInOrder
  GapFreeIsWhole
