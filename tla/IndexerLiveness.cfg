\* Every queued commit is resolved, across a restart, after which builds finish in
\* another order than their commits were enqueued.
SPECIFICATION FairSpec
CONSTANTS
  r1 = r1
  r2 = r2
  s1 = s1
  s2 = s2
  Repos <- OneRepo
  Shas <- TwoShas
  SlugOf <- Slugs
  NoSha = NoSha
  NoJob = NoJob
  MaxRetention = 1
  MaxTime = 2
  MaxFaults = 0
  Callers = {c1}
  Queries = {}
  QueueCap = 1
  MaxCrashes = 1
PROPERTIES
  NewestSurvives
  QueuedIsResolved
