CONSTANTS
  MaxUnread = 1
  MaxPieces = 1
SPECIFICATION BackendsSpec
PROPERTY
  MalformedIsFailure
