\* Two workers on one Task, and a crash, a failed transaction or read, or a clock regression at
\* any point of an adoption or of the first checkpoint, which may end the Task.
CONSTANTS
  Task = {t1}
  Goal = {g1}
  Content = {c1, c2}
  NoContent = NoContent
  NoGoal = NoGoal
  NoOwner = NoOwner
  Worker = {w1, w2}
  LegacyTask = {t1}
  Disposition = {"READY", "COMPLETED"}
  Fence = {0, 2}
  TtlMs = 2
  MaxRevision = 2
  MaxClock = 2
  MaxFaults = 1
  LastFaultAt = 2
  Patient = FALSE
SPECIFICATION Spec
SYMMETRY Interchangeable
INVARIANTS
  TypeOK
  AnswersAreHonoured
  ViewsAreOfOneRevision
  TimeStrictlyIncreases
  TerminalIsLast
  EvidenceIsStored
  RefusalsCommitNothing
PROPERTY ImplementsLedger
CHECK_DEADLOCK FALSE
