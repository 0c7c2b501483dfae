SPECIFICATION FairSpec
CONSTANTS
  MaxLines = 3
  FileSets <- Locations
  BufferSize = 2
  Capacity = 1
  WriteSize = 2
INVARIANTS StreamIsFiles ConversionIsComplete
PROPERTY ConversionEnds
CHECK_DEADLOCK FALSE
