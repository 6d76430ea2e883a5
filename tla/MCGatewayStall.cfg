\* Does a backend timeout release the permit when the client does not read?
SPECIFICATION Spec
CONSTANTS
  Requests = {r1, r2}
  Limit = 1
  MaxQueue = 1
  Threshold = 1
  Reset = 1
  Readers = {r1}
PROPERTY TimeoutsReleasePermits
