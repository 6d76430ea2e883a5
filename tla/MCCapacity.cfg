\* Three permits, a queue of three, four requests.
SPECIFICATION Spec
CONSTANTS
  Requests = {r1, r2, r3, r4}
  Limit = 3
  MaxQueue = 3
INVARIANTS
  TypeOK
  PermitsConserved
  NoLostWakeup
  QueueExact
PROPERTIES
  EveryWaitEnds
  PoolSpec
