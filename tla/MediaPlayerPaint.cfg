SPECIFICATION Spec
CONSTANTS
  film = film
  clip = clip
  None = None
  Files <- MCFiles
  MaxFrames = 1
  MaxStarts = 1
  MaxPauses = 0
  MaxStops = 0
INVARIANT PaintHasFrame
CHECK_DEADLOCK FALSE
