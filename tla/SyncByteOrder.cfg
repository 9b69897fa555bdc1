SPECIFICATION Spec
CONSTANTS
  KeySize = 96
  a1 = a1
  a2 = a2
  Global = Global
  Agents <- OneAgent
  RuleKeys <- ScopeRules
  Legacy <- NoLegacy
  Capacity <- Room
  ManagerKey <- NoKey
  MaxChanges = 1
  MaxFaults = 0
INVARIANT AppliedAddressesBite
