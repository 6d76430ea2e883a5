\* Can a first release that failed be tried again?
SPECIFICATION HSpec
CONSTANTS
  Deployers = {d1, d2}
  Releases <- SomeReleases
  NoRelease = NoRelease
  Stopped = Stopped
INVARIANT RetriesAccepted
