\* The services of the tool server, one at a time.
SPECIFICATION Spec
CONSTANTS
  None = None
  Launches = {l1, l2}
  Users = {u1}
  Enders = {e1, e2}
  Names = {n1}
  Paths = {p1, p2}
  Loads = {d1, d2}
  CacheCap = 1
  MaxWrites = 3
  MaxKeep = 2
  MaxEdits = 3
  MaxReadErrors = 1
  Execs = {x1, x2}
  Killers = {k1}
  Pids = {w1, w2}
  Stranger = Stranger
  Tools = {t1, t2}
  Archived = {t1}
  Installs = {i1, i2}
  MaxVersion = 2
  MaxCalls = 3
  Notes = {a, b}
  MemoryCalls = {m1, m2, m3}
CHECK_DEADLOCK FALSE
INVARIANTS
  TypeOK
  SessionsMatchAdapters
  NoStaleIndex
  RegistryIsTrue
  NamesAgree
PROPERTIES
  ReportsAreTrue
  ToolReturns
  ConfigBecomesLive
  ExecReturns
