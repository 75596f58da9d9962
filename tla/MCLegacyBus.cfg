SPECIFICATION Spec
CONSTANTS
  AddrBits = 2
  Debounce = 2
  BootloaderAddress = 2
  SOP = 1
  EOP = 7
  ByteValues = 8
  PanelAddress = 0
  FlagRead = 4
  PanelRoom = 4
  Printed <- MCPrinted
  SpiCmdW = 1
  SpiDataW = 2
  SetBooster = 5
  Ev = 6
  SpiRow = 2
  UserAddress = 4
  SysAddress = 6
  StRoom = 5
  OffsetValues = 8
  Dynamic = {16, 17}
  SysRegs = 3
  MemSizeLsb = 1
  MemSizeMsb = 2
  Transactions <- MCTransactions
  MaxTransactions = 3
INVARIANTS HandsOnBytes PanelPrintsCommands BootloaderPrintsPackets
PROPERTIES TagPrintsTransactions
