\* Safety: three concurrent requests over two permits and one queue place.
SPECIFICATION Spec
CONSTANTS
  Requests = {r1, r2, r3}
  Limit = 2
  MaxQueue = 1
  Threshold = 2
  Reset = 1
  Readers = {}
SYMMETRY Interchangeable
INVARIANTS
  TypeOK
  NothingLeaks
  ConnectionsWithinLimit
  MeasuredOnce
  VerdictMatchesReply
