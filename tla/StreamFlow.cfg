\* Streams that share the session's cap, one consumer and one writer.
SPECIFICATION FairSpec
CONSTANTS
  Streams = {s1, s2}
  Sizes = {1, 2, 3}
  MaxFramePayload = 2
  WindowFrames = 2
  WindowBytes = 2
  Cap = 3
  ChannelCapacity = 1
  MaxFrames = 3
INVARIANTS Conserved NoLostWakeup
PROPERTIES StoppedUnwinds StreamsGetThrough
CHECK_DEADLOCK TRUE
