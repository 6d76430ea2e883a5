\* Liveness: one client reads or goes away, the other does as it likes.
SPECIFICATION Spec
CONSTANTS
  Requests = {r1, r2}
  Limit = 1
  MaxQueue = 1
  Threshold = 1
  Reset = 1
  Readers = {r1}
PROPERTIES
  ProbeEnds
  PermitsComeBack
  Drains
  QueueEnds
  DeadlineBounds
