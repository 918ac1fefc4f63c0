CONSTANTS
  c1 = c1
  Client = {c1}
  SendBuffer = 1
  MaxIds = 2
  MaxMoves = 2
  MaxLapses = 1
SPECIFICATION FairSpec
INVARIANTS
  DuplicateTicketsHaveACause
PROPERTIES
  SightingsAreQueued
  BoardsCatchUp
  TillsPrintInTheEnd
CHECK_DEADLOCK FALSE
