\* Two posters, and a polling client with pages of one message, or a Doctor.
CONSTANTS
  Message <- Posted
  NoMessage <- Nothing
  Poster = {p1, p2}
  Reader = {r1}
  Query <- Followed
  Limit = 1
  DoctorLimit = 2
SPECIFICATION Spec
INVARIANTS
  MessagesAreStored
  NothingIsSkipped
  LastPagesAreLast
  DoctorValidatesThePrefix
PROPERTY ImplementsBoardLog
PROPERTY PollersCatchUp
CHECK_DEADLOCK FALSE
