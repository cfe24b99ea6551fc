\* A client that repeats busy requests against a lease a dead process left.
\* Faults stop at LastFaultAt, so a lease they leave expires before the clock
\* stops at MaxClock >= LastFaultAt + TtlMs; TtlMs >= MaxRevision keeps a stamp
\* that had to run ahead of the stopped clock within a fresh lease.
CONSTANTS
  Task = {t1}
  Goal = {g1}
  Content = {c1}
  NoContent = NoContent
  NoGoal = NoGoal
  NoOwner = NoOwner
  Worker = {w1, w2}
  LegacyTask = {}
  Disposition = {"READY"}
  Fence = {0}
  TtlMs = 2
  MaxRevision = 2
  MaxClock = 3
  MaxFaults = 1
  LastFaultAt = 1
  Patient = TRUE
SPECIFICATION FairSpec
PROPERTY CallsSettle
CHECK_DEADLOCK FALSE
