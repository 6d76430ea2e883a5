\* The circuit with three concurrent calls.
SPECIFICATION HSpec
CONSTANTS
  Requests = {r1, r2, r3}
  Threshold = 2
  Reset = 2
INVARIANTS
  TypeOK
  SingleProbe
  OpenIffThreshold
  ConsecutiveFailures
PROPERTIES
  ClosedByProbeOnly
  HoldDownEnds
