SPECIFICATION BusSpec
CONSTANTS
  AddrBits = 2
  MaxPacket = 3
  MaxBits = 16
INVARIANTS
  TypeOK DecoderConsistent GivesUpOnlyOnOverflow
PROPERTIES ReportsTransactions
