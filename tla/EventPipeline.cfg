SPECIFICATION Spec
CONSTANTS
  RingSize = 3
  Batch = 2
  MaxTick = 3
  MaxMark = 2
  MaxCrashes = 1
INVARIANTS TypeOK InOrderOnce Accounted
PROPERTIES Reported PolicyIsPolled NoEcho
