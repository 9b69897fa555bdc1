SPECIFICATION FairSpec
CONSTANTS
  KeySize = 3
  a1 = a1
  a2 = a2
  Global = Global
  Agents <- OneAgent
  RuleKeys <- MixedRules
  Legacy <- NoLegacy
  Capacity <- Room
  ManagerKey <- NoKey
  MaxChanges = 2
  MaxFaults = 0
PROPERTY PortsFollow
