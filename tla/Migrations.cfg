\* Two processes open and upgrade one root, from several versions, with deaths.
CONSTANTS
  Opener = {o1, o2}
  Start = {0, 1, 4, 6, 8}
  MaxFacts = 1
  MaxFaults = 2
SPECIFICATION Spec
INVARIANTS
  HistoryLeadsToVersion
  OpenMeansCurrent
  RollbackSourceIsExact
  EvidenceIsPreserved
PROPERTY UpgradeAdvances
CHECK_DEADLOCK FALSE
