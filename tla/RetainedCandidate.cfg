\* The release in force is deployed again, rolled back by itself, planned for collection,
\* and rolled back by hand before the collection is tried again.
CONSTANTS
  Release = {"A", "B"}
  First = "A"
  Schema <- Versions
  NoRelease = "none"
  Fact = {}
  AnyReceipt = FALSE
  MaxReceipts = 1
  MaxPrepared = 1
  MaxPlans = 1
  MaxFaults = 2
SPECIFICATION LifecycleSpec
PROPERTY CandidateIsRetained
CHECK_DEADLOCK FALSE
