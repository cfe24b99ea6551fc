\* One adoption that answers an error after it committed revision 1.
CONSTANTS
  Task = {t1}
  Goal = {g1}
  Content = {c1, c2}
  NoContent = NoContent
  NoGoal = NoGoal
  NoOwner = NoOwner
  Worker = {w1, w2}
  LegacyTask = {t1}
  Disposition = {"READY", "COMPLETED"}
  Fence = {0, 2}
  TtlMs = 2
  MaxRevision = 3
  MaxClock = 2
  MaxFaults = 0
  LastFaultAt = 0
  Patient = FALSE
SPECIFICATION Spec
INVARIANT AdoptErrorsAreHonest
CHECK_DEADLOCK FALSE
