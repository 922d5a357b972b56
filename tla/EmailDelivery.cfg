SPECIFICATION FairSpec
CONSTANTS
  p1 = p1  p2 = p2
  Process <- Processes
  Message = {1}
  MAX_ATTEMPTS = 2
  Limit = 1
  MaxFaults = 1
  MaxWaits = 1
INVARIANTS
  TypeOK
  OneSenderPerReading
  RecordsAreTrue
  DuplicatesExplained
PROPERTIES
  Settles
CHECK_DEADLOCK FALSE
