SPECIFICATION Spec
CONSTANTS
  Registered = {"lis3dh", "lr1110", "uart_txd"}
  SampleTime <- MCSampleTime
  NumberRegs = 2
  AutoIncrement = 3
  Values = {0, 1}
INVARIANTS LogsAreSettled SampleTimeIsFinest ShadowsMatchChip LinesAreTrue
CHECK_DEADLOCK FALSE
