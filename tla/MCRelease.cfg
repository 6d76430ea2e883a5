\* Two deployers and four releases.
SPECIFICATION HSpec
CONSTANTS
  Deployers = {d1, d2}
  Releases <- SomeReleases
  NoRelease = NoRelease
  Stopped = Stopped
INVARIANTS
  TypeOK
  ResultsHold
  RunsTheRecord
PROPERTIES
  RecordsWhatRuns
  ProjectsKept
  LockComesBack
