CONSTANTS
  MaxUnread = 3
  MaxPieces = 3
SPECIFICATION BackendsSpec
INVARIANTS
  TypeOK
  ResponsesClosed
  HealthyModelNotBlamed
PROPERTY
  StreamSpec
