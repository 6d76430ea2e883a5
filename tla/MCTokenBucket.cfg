\* Three clients for two buckets of two tokens; a token takes two ticks.
SPECIFICATION HSpec
CONSTANTS
  Clients = {c1, c2, c3}
  Burst = 2
  Cost = 2
  Rate = 1
  MaxClients = 2
  MaxWindow = 5
INVARIANTS
  TypeOK
  BurstBound
PROPERTIES
  LimitSpec
  NotStarved
