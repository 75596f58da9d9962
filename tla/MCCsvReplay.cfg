SPECIFICATION FairSpec
CONSTANTS
  Signals <- MCSignals
  SampleTime = 2
  DeglitchOf <- MCDeglitch
  SynthLimit = 6
  MaxTime = 12
INVARIANTS TypeOK NoGlitchReported NoReordering
PROPERTIES LongLevelsReported FrameTimesDense EdgesOncePerChange ReachesEnd
