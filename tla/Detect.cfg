SPECIFICATION QueriesSpec
CONSTANTS
  a1 = a1
  a2 = a2
  Agents <- TwoAgents
  Classes <- MCClasses
  Unstorable <- MCUnstorable
  Detectors <- MCDetectors
  Edited <- OnlyBurst
  Rank <- MCRank
  Settings <- MCSettings
  Shipped <- MCShipped
  Absent = Absent
  Shared = Shared
  MaxTs = 2
  MaxEvents = 3
  MaxBatch = 2
  MaxFaults = 1
  Limit = 2
CHECK_DEADLOCK FALSE
SYMMETRY Symm
INVARIANTS TypeOK ExactlyTheNth HitsReferToStored HitsAreJustified SharedHitsAreJustified AnswersStand
