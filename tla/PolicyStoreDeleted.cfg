SPECIFICATION StoreSpec
CONSTANTS
  KeySize = 96
  a1 = a1
  a2 = a2
  Global = Global
  Agents <- MCAgents
  RuleKeys <- MCRuleKeys
  Legacy <- MCLegacy
  MaxChanges = 4
SYMMETRY Symm
INVARIANT DeletedRuleStaysDeleted
