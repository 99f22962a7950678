\* Two repositories share the channel, the worker and the list of files to
\* delete, after a quiet start; no restart.
SPECIFICATION SettledSpec
CONSTANTS
  r1 = r1
  r2 = r2
  s1 = s1
  s2 = s2
  Repos <- TwoRepos
  Shas <- TwoShas
  SlugOf <- Slugs
  NoSha = NoSha
  NoJob = NoJob
  MaxRetention = 1
  MaxTime = 2
  MaxFaults = 0
  Callers = {c1}
  Queries = {}
  QueueCap = 1
  MaxCrashes = 0
SYMMETRY KeySymmetry
INVARIANTS
  SingleFlight
  NoOrphanFile
PROPERTY
  ImplementsService
