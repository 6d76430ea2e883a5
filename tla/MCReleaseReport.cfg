\* Does the report say when an attempt leaves the project in another state?
SPECIFICATION HSpec
CONSTANTS
  Deployers = {d1, d2}
  Releases <- SomeReleases
  NoRelease = NoRelease
  Stopped = Stopped
INVARIANT FailuresReported
