SPECIFICATION QueriesSpec
CONSTANTS
  a1 = a1
  a2 = a2
  Agents <- OneAgent
  Classes <- MCClasses
  Unstorable <- MCUnstorable
  Detectors <- MCDetectors
  Edited <- OnlyBurst
  Rank <- MCRank
  Settings <- MCSettings
  Shipped <- MCShipped
  Absent = Absent
  Shared = Shared
  MaxTs = 2
  MaxEvents = 4
  MaxBatch = 2
  MaxFaults = 0
  Limit = 2
CHECK_DEADLOCK FALSE
INVARIANT NthMatchFires
