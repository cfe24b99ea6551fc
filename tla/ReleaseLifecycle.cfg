CONSTANTS
  Release = {"A", "B", "C"}
  First = "A"
  Schema <- Versions
  NoRelease = "none"
  Fact = {}
  AnyReceipt = FALSE
  MaxReceipts = 3
  MaxPrepared = 1
  MaxPlans = 1
  MaxFaults = 1
SPECIFICATION LifecycleSpec
INVARIANT RemovalIsRecorded
PROPERTY FrontierIsRetained
CHECK_DEADLOCK FALSE
