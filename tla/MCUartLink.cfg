SPECIFICATION Spec
CONSTANTS
  BitTime = 13
  DataBits = 2
  SenderBitTime = 14
  MaxGap = 2
  MaxTime = 150
INVARIANTS ReportsWhatIsSent
PROPERTIES ReportsInTime
