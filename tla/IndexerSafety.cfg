\* Two commits, a query, one restart, one failing file operation, and a
\* retention that changes.
SPECIFICATION Spec
CONSTANTS
  r1 = r1
  r2 = r2
  s1 = s1
  s2 = s2
  Repos <- OneRepo
  Shas <- TwoShas
  SlugOf <- Slugs
  NoSha = NoSha
  NoJob = NoJob
  MaxRetention = 2
  MaxTime = 1
  MaxFaults = 1
  Callers = {c1}
  Queries = {q1}
  QueueCap = 1
  MaxCrashes = 1
SYMMETRY KeySymmetry
INVARIANTS
  TypeOK
  NoGhost
  ReadyHasFile
  GraceHolds
