SPECIFICATION Spec
CONSTANTS
  EntrySize = 2
  Hosts <- StatusHosts
  Args = {0}
  MaxTime = 3
INVARIANTS TxDoneTimeIsTxDone
CHECK_DEADLOCK FALSE
