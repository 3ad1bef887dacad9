SPECIFICATION FairSpec
CONSTANTS
  film = film
  clip = clip
  None = None
  Files <- MCFiles
  MaxFrames = 2
  MaxStarts = 2
  MaxPauses = 2
  MaxStops = 2
INVARIANTS BitmapsAccounted StartsStopped StopLeavesRest
PROPERTIES StopEnds
CHECK_DEADLOCK FALSE
