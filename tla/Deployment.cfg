CONSTANTS
  Release = {"A", "B", "C"}
  First = "A"
  Schema <- Versions
  NoRelease = "none"
  Fact = {f1}
  AnyReceipt = FALSE
  MaxReceipts = 2
  MaxPrepared = 1
  MaxFaults = 2
SPECIFICATION FairSpec
INVARIANTS
  FactsAreKept
  CurrentCanOpen
PROPERTY ReportsAreTrue
PROPERTY ServiceComesBack
CHECK_DEADLOCK FALSE
