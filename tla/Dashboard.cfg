SPECIFICATION Spec
CONSTANTS
  KeySize = 96
  p1 = p1
  Global = Global
  Agents = {}
  Pages <- OnePage
  Overlap <- Overlapping
  RuleKeys <- MCRuleKeys
  Legacy <- MCLegacy
  MaxChanges = 3
  MaxLosses = 1
INVARIANTS
  TypeOK
  DiffersOnlyByMigration
  ShownInOrder
PROPERTIES NoBlindSwitch PagesCatchUp
