\* The main thread's log, rotated after every two lines.
CONSTANTS
  mainSrc = mainSrc  dbSrc = dbSrc
  Sources = {mainSrc}
  RingSize = 2
  Threshold = 2
  MaxCalls = 3
  MaxCompress = 2
SPECIFICATION FairSpec
INVARIANTS TypeOK LogIsExact RotatedInTime ThreadsOwned
PROPERTIES LinesStay DeinitReturns
\* the program ends
CHECK_DEADLOCK FALSE
