SPECIFICATION Spec
CONSTANTS
  EntrySize = 2
  Hosts <- BufferHosts
  Args = {0, 1, 2}
  MaxTime = 1
INVARIANTS PrintsWhatWasRead
CHECK_DEADLOCK FALSE
