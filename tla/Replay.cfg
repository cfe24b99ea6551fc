\* A checkpoint retried against its original revision after the Task moved on.
CONSTANTS
  Task = {t1}
  Goal = {g1}
  Content = {c1, c2}
  NoContent = NoContent
  NoGoal = NoGoal
  NoOwner = NoOwner
  Worker = {w1, w2}
  LegacyTask = {t1}
  Disposition = {"READY", "COMPLETED"}
  Fence = {0, 2}
  TtlMs = 2
  MaxRevision = 3
  MaxClock = 2
  MaxFaults = 0
  LastFaultAt = 0
  Patient = FALSE
SPECIFICATION Spec
PROPERTY ReplayIsRecognised
CHECK_DEADLOCK FALSE
