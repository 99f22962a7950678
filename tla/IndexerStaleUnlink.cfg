\* A commit re-enqueued while its old path awaits deletion.
SPECIFICATION SettledSpec
CONSTANTS
  r1 = r1
  r2 = r2
  s1 = s1
  s2 = s2
  Repos <- OneRepo
  Shas <- TwoShas
  SlugOf <- Slugs
  NoSha = NoSha
  NoJob = NoJob
  MaxRetention = 1
  MaxTime = 2
  MaxFaults = 0
  Callers = {c1}
  Queries = {}
  QueueCap = 1
  MaxCrashes = 0
INVARIANT
  ReadyAlwaysHasFile
