SPECIFICATION Spec
CONSTANTS
  LineBufferSize = 3
  Micro = 2
  MaxTime = 8
INVARIANTS LinesAreTheText DifferencesAddUp
CHECK_DEADLOCK FALSE
