\* One COPY IN: a window of three frames or four bytes, chunks that straddle it.
SPECIFICATION FairSpec
CONSTANTS
  WindowFrames = 3
  WindowBytes = 4
  Sizes = {0, 1, 2, 3}
  MaxChunks = 6
  ControlRoom = 1
INVARIANTS LawfulClientSurvives RetryIsSafe
PROPERTIES CopyEnds
CHECK_DEADLOCK TRUE
