SPECIFICATION Spec
CONSTANTS
  Games <- MCGames
  Plugged <- MCPlugged
  Reports <- MCReports
  FrameTimes = {1, 3}
  MoveDelay = 3
  PowerTime = 6
PROPERTIES HeldMovesOnce
CHECK_DEADLOCK FALSE
