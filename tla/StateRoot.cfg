\* Two operators back up and restore, in every order, the root that one request
\* opens, validates and appends to; one file is damaged, one call fails, the two
\* kept backups change places once.
CONSTANTS
  Fact = {"event", "message"}
  Object = {"payload", "note"}
  ObjectOf <- Refers
  Startup = {"payload"}
  Held = {"event"}
  Operator = {p1, p2}
  Destination = {d1, d2}
  MaxRoots = 3
  MaxDamage = 1
  MaxExchanges = 1
  MaxFaults = 1
SYMMETRY Interchangeable
SPECIFICATION Spec
INVARIANTS
  BackupErrorsAreJustified
  ReceiptsAreHonest
  NoRootIsLost
  RootsStayComplete
  CacheIsSound
  AbsenceIsTransient
PROPERTY BackupsAreComplete
CHECK_DEADLOCK FALSE
