SPECIFICATION Spec
CONSTANTS
  KeySize = 96
  a1 = a1
  a2 = a2
  Global = Global
  Agents <- TwoAgents
  RuleKeys <- ScopeRules
  Legacy <- NoLegacy
  Capacity <- Room
  ManagerKey <- NoKey
  MaxChanges = 2
  MaxFaults = 1
SYMMETRY Symm
INVARIANTS TypeOK Isolation
