\* Two publishers, and a client that lists with pages of one edition, or reads.
CONSTANTS
  Request <- Published
  NoRequest <- Nothing
  Publisher = {p1, p2}
  Reader = {r1}
  Scope <- Ranges
  Limit = 1
SPECIFICATION Spec
INVARIANTS
  HistoryIsSound
  RepeatIsRecognised
  ListingIsComplete
  NewestIsNotStale
CHECK_DEADLOCK FALSE
