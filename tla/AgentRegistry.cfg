SPECIFICATION FairSpec
CONSTANTS
  m1 = m1
  m2 = m2
  x1 = x1
  x2 = x2
  Machines <- MCMachines
  Addresses <- MCAddresses
  Period = 4
  Round = 1
  Fresh = 5
  MaxMoves = 1
  MaxFaults = 2
INVARIANTS TypeOK OneRowPerAddress IdStandsForAddress SharedIdSharedAddress ServedIsOnline
PROPERTIES ComesBack
