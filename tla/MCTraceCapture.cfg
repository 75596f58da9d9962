SPECIFICATION CaptureSpec
CONSTANTS
  WordBytes = 2
  Magic <- MCMagic
  PacketWords = 4
  Tags <- MCTags
  TagWords <- MCTagWords
  SwapIn <- MCSwapIn
  ThreadName <- MCThreadName
  NameWords = 1
  NumberThreads = 2
  Packets <- MCPackets
  Byte = {0, 1, 2, 3, 4, 5, 7}
  Noise = {0, 3, 7}
  BufferSize = 8
  Wrap = 16
  MaxStream = 16
  MaxNoise = 9
INVARIANTS TypeOK PacketFitsBuffer RingAtRest PrintedAsSent TableIsExact
PROPERTIES FramesPackets NamesBelongToThreads
CHECK_DEADLOCK FALSE
