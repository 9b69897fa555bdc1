SPECIFICATION FairSpec
CONSTANTS
  KeySize = 3
  a1 = a1
  a2 = a2
  Global = Global
  Agents <- OneAgent
  RuleKeys <- BusyRules
  Legacy <- BusyLegacy
  Capacity <- LittleRoom
  ManagerKey <- Reversed
  MaxChanges = 2
  MaxFaults = 1
INVARIANTS RewriteInOrder SyncOutcome AppliedRulesBite
PROPERTIES LockedOutStaysSo ReplicaSpec Converges
