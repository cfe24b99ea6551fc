\* Two components, core events and readers of the retained state around one
\* namespace of one Task, with leases that expire and change hands.
CONSTANTS
  Task = {t1}
  Goal = {}
  Content = {}
  NoContent = NoContent
  NoGoal = NoGoal
  NoOwner = NoOwner
  Worker = {w1, w2}
  Namespace = {n1}
  Field = {f1, f2}
  Tool = {"extend", "core", "inspect", "route"}
  TtlMs = 2
  MaxRevision = 3
  MaxClock = 2
SPECIFICATION Spec
SYMMETRY Interchangeable
INVARIANTS
  NoUpdateIsLost
  SnapshotsAreCoherent
  RoutesAreBounded
CHECK_DEADLOCK FALSE
