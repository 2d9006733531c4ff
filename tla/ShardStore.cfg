SPECIFICATION Spec
CONSTANTS
  Starts = {TRUE, FALSE}
  MaxOps = 3
  MaxSaves = 2
  MaxCrashes = 2
  MaxTornAppends = 2
  MaxTornRewrites = 1
  MaxIoErrors = 1
INVARIANT TypeOK
INVARIANT AckedReadable
INVARIANT LastWriteWins
 
PROPERTY ReadableStays
CHECK_DEADLOCK FALSE
