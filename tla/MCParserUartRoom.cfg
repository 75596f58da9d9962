SPECIFICATION Spec
CONSTANTS
  LineBufferSize = 3
  Micro = 2
  MaxTime = 7
INVARIANTS RoomInBuffer
CHECK_DEADLOCK FALSE
