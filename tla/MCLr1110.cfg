SPECIFICATION MCSpec
CONSTANTS
  ByteBits = 2
  NumberBytes = 3
  MaxBits = 8
  EntrySize = 2
  Hosts <- MixedHosts
  Args = {0, 1, 2}
  MaxTime = 3
INVARIANTS
  SpiTypeOK NothingLost
  TypeOK UnderstandsPoliteHost BackInStep NeverStale
  DelayNeverShort DelayCountsFromTxDone PrintsWithinResponse
PROPERTIES ReportsPackets
CHECK_DEADLOCK FALSE
